---- MODULE Spec2Model ----
(***************************************************************************)
(* REAL ID Appointment Tracker: the State Store (AppointmentStore), the    *)
(* Notifier and the check cycle of the Orchestrator (App.runCheck), with   *)
(* the Fetcher's retry loop (Scraper._fetchHtml / checkAppointments).      *)
(*                                                                         *)
(* Two specifications share the variables, both on a disk that accepts    *)
(* every write:                                                            *)
(*   SpecStore  the store driven directly by update(type, count) calls;    *)
(*   Spec       check cycles (possibly overlapping, as the immediate check *)
(*              of App.start and a cron firing can) driving the store and  *)
(*              the notifier.                                              *)
(***************************************************************************)
EXTENDS Integers, Sequences, FiniteSets, TLC

\* ------------------------------------------------------------------ bounds
\* configured history cap (options.maxHistory), scaled down
maxHistory == 2
\* configured TRACKER_MAX_RETRIES, scaled down
maxRetries == 1
\* largest appointment count a page shows
MaxCount == 2
\* number of records the store harness makes update store
MaxUpdates == 5
\* number of records check cycles store (the logical clock's range)
MaxTime == 3
\* largest retry attempt a backoff delay is computed for
MaxAttempt == 6
\* minutes the scheduler's wall clock runs for
MaxTick == 2
\* number of jobs schedule creates
MaxJobs == 2
\* number of executeNow calls that run a task
MaxDirect == 1
\* number of termination signals sent to the process
MaxSignals == 2

\* --------------------------------------------------------------- constants
Types == {"regular", "mobile"}

\* checkAppointments returns -1 when the check failed
Unknown == -1

\* regularCount / mobileCount before checkAppointments has returned
Unassigned == -2

Counts == 0..MaxCount

\* the call sites of runCheck: the immediate check of App.start and the task
\* of the scheduled job; the two can be in flight at the same time
Cycles == {"initial", "cron"}

\* the two addresses sendNotification writes to
phoneNumber == "7329957580@vtext.com"

emailAddress == "adamb.capuana@gmail.com"

Addresses == {phoneNumber, emailAddress, "user@example.com"}

\* values of the email part of the configuration: whether sender and
\* password are set, the addresses of TRACKER_EMAIL_RECIPIENT, and the
\* value of TRACKER_EMAIL_PASSWORD ("" when it is not set)
EmailConfigs ==
  { [credentials |-> FALSE, recipients |-> {}, password |-> ""],
    [credentials |-> TRUE,  recipients |-> {"user@example.com"},
     password |-> "secret"] }

\* Config.hasValidEmailSettings, as the condition of an if: whether the
\* value it returns is truthy
hasValidEmailSettings(cfg) == cfg.credentials /\ cfg.recipients # {}

\* the value Config.hasValidEmailSettings returns: sender && recipient &&
\* password is the first operand that is empty, and the password when none
\* is
settings(cfg) ==
  IF ~cfg.credentials \/ cfg.recipients = {} THEN "" ELSE cfg.password

\* ------------------------------------------------------------------- state
VARIABLES
  current,     \* AppointmentStore.current: type -> AppointmentData or Null
  history,     \* AppointmentStore.history: type -> sequence, newest first
  file,        \* content of data/appointments.json
  now,         \* the clock read by new Date(), in records stamped so far
  result,      \* the object returned by the last update call
  config,      \* email part of the configuration
  transporter, \* Notifier.transporter is set (TRUE) or null (FALSE)
  started,     \* App.start has run and App.stop has not since
  cyc,         \* one record per call site of runCheck: where its cycle is
  notifCalls,  \* type -> number of sendNotification calls made
  lastCall,    \* the arguments of the last sendNotification call
  wasZero,     \* type -> stored count was 0 since the last sendNotification
  input,       \* the arguments of the store harness's last update call
  passed,      \* type -> digest of the counts the harness passed to update
  scheduler,   \* the Scheduler: its jobs, its status and the runs of its jobs
  fetching,    \* one call of Scraper._fetchHtml
  extraction,  \* one call of Scraper._extractAppointmentCount
  delays,      \* calls of the two _calculateBackoff functions
  app,         \* the App and its process: shutdown flag, exit, what shutdown did
  test,        \* one call of App.runTest
  web,         \* POST /api/config: process.env, the values of Config and the response
  fresh,       \* a store built by new AppointmentStore() over the file
  startup,     \* the Config built when the process starts
  logging      \* the logger of app.js: minimum level and the levels written

\* the components driven on their own by the harness specifications
componentVars == <<scheduler, fetching, extraction, delays, app, test, web,
                  fresh, startup, logging>>

vars == <<current, history, file, now, result, config, transporter, started,
          cyc, notifCalls, lastCall, wasZero, input, passed, componentVars>>

\* the tracker: store, notifier, configuration and check cycles
trackerVars == <<current, history, file, now, result, config, transporter,
                 started, cyc, notifCalls, lastCall, wasZero, input, passed>>

storeVars == <<current, history, file, now>>

\* ------------------------------------------------------- AppointmentData
Null == [id |-> <<>>, type |-> "null", count |-> 0, timestamp |-> 0,
         location |-> ""]

\* location || (type === 'regular' ? 'Regular DMV' : 'Mobile Unit')
location(type, given) ==
  IF given # "" THEN given
  ELSE IF type = "regular" THEN "Regular DMV" ELSE "Mobile Unit"

\* new AppointmentData({type, count, timestamp}): id from the type and
\* Date.now(), count || 0, the location by the type
AppointmentData(type, count, timestamp) ==
  [id |-> <<type, now>>, type |-> type,
   count |-> IF count = 0 THEN 0 ELSE count,
   timestamp |-> timestamp, location |-> location(type, "")]

\* Date.prototype.toISOString: the text of an instant
toISOString(t) == [iso |-> t]

\* new Date(text): the instant a text written by toISOString stands for
Date(text) == text.iso

\* AppointmentData.toJSON, one field at a time
toJSON(d) == [id |-> d.id, type |-> d.type, count |-> d.count,
              timestamp |-> toISOString(d.timestamp),
              location |-> d.location]

fromJSONMutant(data) ==
  [id |-> data.id, type |-> data.type,
   count |-> IF data.count = 0 THEN 0 ELSE data.count,
   timestamp |-> now,
   location |-> location(data.type, data.location)]

\* AppointmentData.fromJSON: the id and the location of the data are kept
\* by the constructor, the timestamp is read back into a Date
fromJSON(data) ==
  [id |-> data.id, type |-> data.type,
   count |-> IF data.count = 0 THEN 0 ELSE data.count,
   timestamp |-> Date(data.timestamp),
   location |-> location(data.type, data.location)]

\* previousData?.count || 0
previousCount(previousData) ==
  IF previousData = Null THEN 0 ELSE previousData.count

\* the count getStatus reports: state ? state.count : 0
StoredCount(type) == previousCount(current[type])

\* ----------------------------------------------------------------- update
hasChangedMutant(previousData, count) ==
  previousCount(previousData) # count

\* const hasChanged = !previousData || previousData.count !== count
hasChanged(previousData, count) ==
  previousData = Null \/ previousData.count # count

becameAvailableMutant(previousData, count) ==
  count > 0 /\ (previousData = Null \/ previousData.count # count)

becameAvailableNoNull(previousData, count) ==
  count > 0 /\ previousData # Null /\ previousData.count = 0

\* count > 0 && (!previousData || previousData.count === 0)
becameAvailable(previousData, count) ==
  count > 0 /\ (previousData = Null \/ previousData.count = 0)

trimMutant(h) ==
  IF Len(h) > maxHistory THEN SubSeq(h, Len(h) - maxHistory + 1, Len(h)) ELSE h

\* if (length > maxHistory) history = history.slice(0, maxHistory)
trim(h) ==
  IF Len(h) > maxHistory THEN SubSeq(h, 1, maxHistory) ELSE h

\* the history branch of update
historyAfter(type, count, newData) ==
  IF hasChanged(current[type], count) /\ becameAvailable(current[type], count)
    THEN trim(<<newData>> \o history[type])
    ELSE history[type]

\* this.current[type] = newData, inside if (hasChanged)
currentAfter(type, count, newData) ==
  IF hasChanged(current[type], count) THEN newData ELSE current[type]

\* the object update returns
updateResult(type, count) ==
  LET newData == AppointmentData(type, count, now) IN
  [type |-> type, count |-> count,
   previousCount |-> previousCount(current[type]),
   hasChanged |-> hasChanged(current[type], count),
   becameAvailable |-> becameAvailable(current[type], count),
   timestamp |-> newData.timestamp]

\* save(): the file holds the serialized state when the write succeeds and
\* is left as it was when the write fails (the error is caught and logged)
save(cur, hist, writeOk) ==
  IF writeOk
    THEN [exists |-> TRUE, whole |-> TRUE,
          current |-> [t \in Types |-> IF cur[t] = Null THEN Null
                                        ELSE toJSON(cur[t])],
          history |-> [t \in Types |->
                          [i \in 1..Len(hist[t]) |-> toJSON(hist[t][i])]]]
    ELSE file

\* fs.writeFileSync(this.dataFile, ...) cut short by the end of the process:
\* the file is opened for writing in place, which empties it, and filled
\* after that, so it is as before (not yet opened), holds a part of the new
\* state, or holds the new state
interrupted(cur, hist) ==
  {file, [save(cur, hist, TRUE) EXCEPT !.whole = FALSE],
   save(cur, hist, TRUE)}

\* ------------------------------------------------------------------- load
\* a store as its constructor leaves it before load() runs
NoFresh == [built |-> FALSE, failed |-> FALSE,
            current |-> [t \in Types |-> Null],
            history |-> [t \in Types |-> <<>>]]

\* items.map(item => AppointmentData.fromJSON(item)) ends normally: reading
\* data.id of a null item throws
decodes(items) == \A i \in 1..Len(items) : items[i] # Null

\* items.map(item => AppointmentData.fromJSON(item))
decoded(items) == [i \in 1..Len(items) |-> fromJSON(items[i])]

loadMutant(f, readable) ==
  IF f.exists /\ readable /\ f.whole
       /\ \A t \in Types : decodes(f.history[t])
    THEN [NoFresh EXCEPT
            !.built = TRUE,
            !.history = [t \in Types |-> decoded(f.history[t])]]
    ELSE [NoFresh EXCEPT !.built = TRUE, !.failed = f.exists]

\* load() in the constructor of a new store over the file f; readable is
\* the outcome of readFileSync, and JSON.parse throws on a file that is not
\* whole. The parts are assigned in
\* the order current.regular, current.mobile, history.regular,
\* history.mobile, and the catch only logs the error
load(f, readable) ==
  LET cur == [t \in Types |-> IF f.current[t] # Null
                                THEN fromJSON(f.current[t]) ELSE Null]
      loaded == [NoFresh EXCEPT !.built = TRUE]
  IN IF ~f.exists THEN loaded
     ELSE IF ~readable \/ ~f.whole THEN [loaded EXCEPT !.failed = TRUE]
     ELSE IF ~decodes(f.history["regular"])
       THEN [loaded EXCEPT !.failed = TRUE, !.current = cur]
     ELSE IF ~decodes(f.history["mobile"])
       THEN [loaded EXCEPT !.failed = TRUE, !.current = cur,
               !.history["regular"] = decoded(f.history["regular"])]
     ELSE [loaded EXCEPT !.current = cur,
             !.history = [t \in Types |-> decoded(f.history[t])]]

\* ----------------------------------------------------------- clearHistory
\* the argument of clearHistory: a type, or none for both types
Cleared == Types \cup {"all"}

\* clearHistory(type): the history of the type, or of both, is emptied and
\* the state is saved
clearHistory(type, writeOk) ==
  LET hist == [t \in Types |-> IF type \in {t, "all"} THEN <<>>
                                ELSE history[t]]
  IN /\ history' = hist
     /\ file' = save(current, hist, writeOk)
     /\ UNCHANGED <<current, now>>

updateMutant(type, count, writeOk) ==
  LET newData == AppointmentData(type, count, now)
      changed == hasChanged(current[type], count) /\ writeOk
      cur == [current EXCEPT ![type] = currentAfter(type, count, newData)]
      hist == [history EXCEPT ![type] = historyAfter(type, count, newData)]
  IN /\ current' = IF changed THEN cur ELSE current
     /\ history' = IF changed THEN hist ELSE history
     /\ file' = IF changed THEN save(cur, hist, writeOk) ELSE file
     /\ now' = IF hasChanged(current[type], count) THEN now + 1 ELSE now

\* AppointmentStore.update(type, count); writeOk is the outcome of the
\* writeFileSync inside save()
update(type, count, writeOk) ==
  LET newData == AppointmentData(type, count, now)
      cur == [current EXCEPT ![type] = currentAfter(type, count, newData)]
      hist == [history EXCEPT ![type] = historyAfter(type, count, newData)]
  IN /\ current' = cur
     /\ history' = hist
     /\ file' = IF hasChanged(current[type], count)
                  THEN save(cur, hist, writeOk) ELSE file
     /\ now' = IF hasChanged(current[type], count) THEN now + 1 ELSE now

\* --------------------------------------------------------------- runCheck
NoSent == [a \in Addresses |-> 0]

IdleCycle == [pc |-> "idle", type |-> "regular", retries |-> 0,
              count |-> Unassigned,
              sendRetries |-> 0, sentTo |-> NoSent, sendResult |-> "none"]

advanceMutant(r) ==
  IF r.type = "regular" /\ r.count # Unknown
    THEN [IdleCycle EXCEPT !.pc = "fetch", !.type = "mobile"]
    ELSE IdleCycle

\* runCheck after one target is finished: the mobile check follows the
\* regular one, and the cycle ends after the mobile one
advance(r) ==
  IF r.type = "regular"
    THEN [IdleCycle EXCEPT !.pc = "fetch", !.type = "mobile"]
    ELSE IdleCycle

\* catch (error) { throw error } in runCheck: the cycle ends at once
abort(r) == IdleCycle

exhaustedMutant == "throw"

\* if (retries > maxRetries) return false
exhausted == "false"

\* sendNotification up to its first await: false at once without a
\* transporter, otherwise the first sendMail is in flight
beginSend(r) ==
  IF ~transporter
    THEN [r EXCEPT !.pc = "sent", !.count = Unassigned, !.sendResult = "false"]
    ELSE [r EXCEPT !.pc = "sms", !.count = Unassigned]

shouldUpdateMutant(count) == TRUE

\* if (regularCount >= 0) / if (mobileCount >= 0)
shouldUpdate(count) == count >= 0

shouldNotifyMutant(res) == res.hasChanged /\ res.count > 0

\* if (regularUpdate.becameAvailable)
shouldNotify(res) == res.becameAvailable

\* wasZero follows the stored count: reset by a sendNotification call
WasZeroNext ==
  wasZero' = [t \in Types |->
                IF notifCalls'[t] # notifCalls[t]
                  THEN previousCount(current'[t]) = 0
                  ELSE wasZero[t] \/ previousCount(current'[t]) = 0]

\* App.start: the job is scheduled and the initial check is run, which
\* issues the request for the regular site; a start after a stop is taken
\* once the initial check of the start before it has ended
start ==
  /\ ~started
  /\ cyc["initial"].pc = "idle"
  /\ started' = TRUE
  /\ cyc' = [cyc EXCEPT !["initial"] = [IdleCycle EXCEPT !.pc = "fetch"]]
  /\ UNCHANGED <<storeVars, result, config, transporter, notifCalls, lastCall,
               input, passed, componentVars>>
  /\ WasZeroNext

\* App.stop(): scheduler.stop() stops the job, nothing else; the process
\* and the cycles in progress go on
stop ==
  /\ started
  /\ started' = FALSE
  /\ UNCHANGED <<storeVars, result, config, transporter, cyc, notifCalls,
               lastCall, input, passed, componentVars>>
  /\ WasZeroNext

appointmentCheckMutant ==
  /\ cyc["cron"].pc = "idle"
  /\ cyc' = [cyc EXCEPT !["cron"] = [IdleCycle EXCEPT !.pc = "fetch"]]
  /\ UNCHANGED <<storeVars, result, config, transporter, started, notifCalls,
               lastCall, input, passed, componentVars>>
  /\ WasZeroNext

\* the scheduled job fires: its task calls runCheck, which issues the
\* request for the regular site
appointmentCheck ==
  /\ started
  /\ cyc["cron"].pc = "idle"
  /\ cyc' = [cyc EXCEPT !["cron"] = [IdleCycle EXCEPT !.pc = "fetch"]]
  /\ UNCHANGED <<storeVars, result, config, transporter, started, notifCalls,
               lastCall, input, passed, componentVars>>
  /\ WasZeroNext

\* _fetchHtml: the request fails (non-2xx or network error); it is retried
\* after a backoff delay, and once retries exceed maxRetries the error is
\* thrown and checkAppointments returns -1
RequestFail(c) ==
  /\ cyc[c].pc = "fetch"
  /\ cyc' = [cyc EXCEPT ![c] =
               IF cyc[c].retries + 1 > maxRetries
                 THEN [cyc[c] EXCEPT !.retries = 0, !.pc = "checked",
                                     !.count = Unknown]
                 ELSE [cyc[c] EXCEPT !.retries = @ + 1]]
  /\ UNCHANGED <<storeVars, result, config, transporter, started, notifCalls,
               lastCall, input, passed, componentVars>>
  /\ WasZeroNext

\* _fetchHtml returns the page and _extractAppointmentCount yields count
\* (a number, or -1 when no strategy parsed one); checkAppointments returns
ResponseOk(c, count) ==
  /\ cyc[c].pc = "fetch"
  /\ cyc' = [cyc EXCEPT ![c].pc = "checked", ![c].retries = 0,
                        ![c].count = count]
  /\ UNCHANGED <<storeVars, result, config, transporter, started, notifCalls,
               lastCall, input, passed, componentVars>>
  /\ WasZeroNext

\* runCheck resumes with the count of checkAppointments: the store is
\* updated when the count is known, and sendNotification is called when the
\* update reports becameAvailable
Check(c, writeOk) ==
  LET type == cyc[c].type
      count == cyc[c].count
  IN /\ cyc[c].pc = "checked"
     /\ IF shouldUpdate(count)
          THEN /\ hasChanged(current[type], count) => now < MaxTime
               /\ update(type, count, writeOk)
               /\ IF shouldNotify(updateResult(type, count))
                    THEN /\ cyc' = [cyc EXCEPT ![c] = beginSend(cyc[c])]
                         /\ notifCalls' = [notifCalls EXCEPT ![type] = @ + 1]
                         /\ lastCall' = [type |-> type, count |-> count]
                    ELSE /\ cyc' = [cyc EXCEPT ![c] = advance(cyc[c])]
                         /\ UNCHANGED <<notifCalls, lastCall>>
          ELSE /\ cyc' = [cyc EXCEPT ![c] = advance(cyc[c])]
               /\ UNCHANGED <<storeVars, notifCalls, lastCall>>
     /\ UNCHANGED <<result, config, transporter, started, input, passed,
                    componentVars>>
     /\ WasZeroNext

\* sendNotification: the sendMail to the SMS gateway succeeded and the
\* sendMail to the email address is issued
SmsSent(c) ==
  /\ cyc[c].pc = "sms"
  /\ cyc' = [cyc EXCEPT ![c].pc = "email", ![c].sentTo[phoneNumber] = @ + 1]
  /\ UNCHANGED <<storeVars, result, config, transporter, started, notifCalls,
               lastCall, input, passed, componentVars>>
  /\ WasZeroNext

\* sendNotification: the sendMail to the email address succeeded; return true
EmailSent(c) ==
  /\ cyc[c].pc = "email"
  /\ cyc' = [cyc EXCEPT ![c].pc = "sent", ![c].sendRetries = 0,
                        ![c].sentTo = NoSent, ![c].sendResult = "true"]
  /\ UNCHANGED <<storeVars, result, config, transporter, started, notifCalls,
               lastCall, input, passed, componentVars>>
  /\ WasZeroNext

\* sendNotification: a sendMail failed; the whole round (SMS, then email) is
\* retried after a backoff delay until retries exceed maxRetries, and what
\* the call has sent so far stays sent
SendFail(c) ==
  /\ cyc[c].pc \in {"sms", "email"}
  /\ cyc' = [cyc EXCEPT ![c] =
               IF cyc[c].sendRetries + 1 > maxRetries
                 THEN [cyc[c] EXCEPT !.sendRetries = 0, !.pc = "sent",
                                     !.sentTo = NoSent,
                                     !.sendResult = exhausted]
                 ELSE [cyc[c] EXCEPT !.sendRetries = @ + 1, !.pc = "sms"]]
  /\ UNCHANGED <<storeVars, result, config, transporter, started, notifCalls,
               lastCall, input, passed, componentVars>>
  /\ WasZeroNext

\* runCheck resumes after the awaited sendNotification: a boolean is
\* ignored and the cycle goes on, an exception ends the cycle
AfterSend(c) ==
  /\ cyc[c].pc = "sent"
  /\ cyc' = [cyc EXCEPT ![c] = IF cyc[c].sendResult = "throw"
                                 THEN abort(cyc[c]) ELSE advance(cyc[c])]
  /\ UNCHANGED <<storeVars, result, config, transporter, started, notifCalls,
               lastCall, input, passed, componentVars>>
  /\ WasZeroNext

\* what the counts passed for one type amount to: the last of them (0
\* before the first), whether all were known counts, and the positive counts
\* that followed a 0 (or came first), newest first
NonePassed == [last |-> 0, known |-> TRUE, transitions |-> <<>>]

PassedNext(p, count) ==
  [last |-> count,
   known |-> p.known /\ count >= 0,
   transitions |-> IF p.last = 0 /\ count > 0
                     THEN <<count>> \o p.transitions ELSE p.transitions]

\* POST /api/config with the email fields filled in: process.env is
\* updated and config.loadConfig() reads it again; nothing else is told
postConfig(email) ==
  /\ email.credentials
  /\ config' = email
  /\ UNCHANGED <<storeVars, result, transporter, started, cyc, notifCalls,
               lastCall, input, passed, componentVars>>
  /\ WasZeroNext

\* the store harness calls update(type, count) directly
StoreCall(type, count, writeOk) ==
  /\ hasChanged(current[type], count) => now < MaxUpdates
  /\ update(type, count, writeOk)
  /\ result' = updateResult(type, count)
  /\ input' = [type |-> type, count |-> count]
  /\ passed' = [passed EXCEPT ![type] = PassedNext(passed[type], count)]
  /\ UNCHANGED <<config, transporter, started, cyc, notifCalls, lastCall,
               componentVars>>
  /\ WasZeroNext

\* clearHistory(type) called on the store
ClearCall(type, writeOk) ==
  /\ clearHistory(type, writeOk)
  /\ UNCHANGED <<result, input, passed, config, transporter, started, cyc,
               notifCalls, lastCall, componentVars>>
  /\ WasZeroNext

\* the state file with the i-th entry of one history array null, as load
\* may find it: JSON.parse accepts it and fromJSON throws on the entry
damaged(f, type, i) == [f EXCEPT !.history[type][i] = Null]

\* the file is left damaged by something other than the store
Damage(type, i) ==
  /\ file.exists
  /\ i \in 1..Len(file.history[type])
  /\ file.history[type][i] # Null
  /\ file' = damaged(file, type, i)
  /\ UNCHANGED <<current, history, now, result, input, passed, config,
               transporter, started, cyc, notifCalls, lastCall, wasZero,
               componentVars>>

\* new AppointmentStore() at the next startup: empty current and history,
\* then load() over the file
constructor(readable) ==
  /\ ~fresh.built
  /\ fresh' = load(file, readable)
  /\ UNCHANGED <<trackerVars, scheduler, fetching, extraction, delays, app,
               test, web, startup, logging>>

\* the process ends and the next one is started: the module is loaded
\* again and its store is the one new AppointmentStore() builds over the
\* file, before anything is checked
restart(readable) ==
  /\ ~fresh.built
  /\ fresh' = load(file, readable)
  /\ current' = load(file, readable).current
  /\ history' = load(file, readable).history
  /\ UNCHANGED <<file, now, result, input, passed, config, transporter,
                 started, cyc, notifCalls, lastCall, scheduler, fetching,
                 extraction, delays, app, test, web, startup, logging>>
  /\ WasZeroNext

\* ------------------------------------------------------------- components
\* -------------------------------------------------------------- Scheduler
\* lastCheckTime and nextCheckTime before they are set: null
Never == -1

\* the names jobs are scheduled under; App uses appointmentCheck
Names == {"appointmentCheck", "other"}

\* an expression cron.validate rejects
Invalid == 0

\* cron expressions "*/N * * * *", by their N; time is counted in minutes
validate(cronExpression) == cronExpression \in {1, 2}

\* the minutes a job with this expression is due at
due(cronExpression, t) == t % cronExpression = 0

\* how the task called by a job ends
Outcomes == {"returned", "threw"}

\* the schedule calls made: App.start's, a second one under the same name
\* with another expression and task, one under another name, a rejected one
Requests ==
  {[name |-> "appointmentCheck", cronExpression |-> 1, task |-> "runCheck"],
   [name |-> "appointmentCheck", cronExpression |-> 2, task |-> "task"],
   [name |-> "other", cronExpression |-> 1, task |-> "runCheck"],
   [name |-> "appointmentCheck", cronExpression |-> Invalid,
    task |-> "runCheck"]}

\* interval.next(): the first due minute after t
calculateNextCheckTime(cronExpression, t) ==
  (t \div cronExpression + 1) * cronExpression

\* a name with no entry in the jobs Map
NoJob == [job |-> 0, cronExpression |-> Invalid, task |-> "none"]

\* jobs.size
size(jobs) == Cardinality({n \in Names : jobs[n] # NoJob})

\* job.stop(): the job is no longer live and its timer is cleared
jobStop(crons, i) == [crons EXCEPT ![i].live = FALSE, ![i].armed = FALSE]

\* job.start()
jobStart(crons, i) == [crons EXCEPT ![i].live = TRUE]

cancelMutant(s, name) ==
  IF s.jobs[name] = NoJob THEN s
  ELSE LET jobs == [s.jobs EXCEPT ![name] = NoJob]
       IN [s EXCEPT !.jobs = jobs, !.status.isRunning = size(jobs) > 0]

\* cancel(name): the scheduler after the call
cancel(s, name) ==
  IF s.jobs[name] = NoJob THEN s
  ELSE LET jobs == [s.jobs EXCEPT ![name] = NoJob]
       IN [s EXCEPT !.crons = jobStop(s.crons, s.jobs[name].job),
                    !.jobs = jobs,
                    !.status.isRunning = size(jobs) > 0]

\* cron.schedule(cronExpression, callback): node-cron starts the job it
\* creates; the callback closes over name, cronExpression and task
cronSchedule(name, cronExpression, task) ==
  [name |-> name, cronExpression |-> cronExpression, task |-> task,
   live |-> TRUE, armed |-> FALSE, inFlight |-> 0, ended |-> "none",
   promise |-> "none"]

rejectedMutant(s, name) == [cancel(s, name) EXCEPT !.returned = FALSE]

\* the catch block of schedule, reached from the validation before anything
\* was done: the error is logged and emitted, and false is returned
rejected(s, name) == [s EXCEPT !.returned = FALSE]

scheduleMutant(name, cronExpression, task) ==
  /\ validate(cronExpression) => Len(scheduler.crons) < MaxJobs
  /\ scheduler' =
       IF ~validate(cronExpression)
       THEN rejected(scheduler, name)
       ELSE LET s == cancel(scheduler, name)
                job == Len(s.crons) + 1
            IN [s EXCEPT
                 !.crons = Append(s.crons,
                                  cronSchedule(name, cronExpression, task)),
                 !.jobs[name] = [job |-> job,
                                 cronExpression |-> cronExpression,
                                 task |-> task],
                 !.status.nextCheckTime =
                   calculateNextCheckTime(cronExpression, s.clock),
                 !.returned = TRUE]
  /\ UNCHANGED <<trackerVars, fetching, extraction, delays, app, test, web,
                 fresh, startup, logging>>

\* schedule(name, cronExpression, task)
schedule(name, cronExpression, task) ==
  /\ validate(cronExpression) => Len(scheduler.crons) < MaxJobs
  /\ scheduler' =
       IF ~validate(cronExpression)
       THEN rejected(scheduler, name)
       ELSE LET s == cancel(scheduler, name)
                job == Len(s.crons) + 1
            IN [s EXCEPT
                 !.crons = Append(s.crons,
                                  cronSchedule(name, cronExpression, task)),
                 !.jobs[name] = [job |-> job,
                                 cronExpression |-> cronExpression,
                                 task |-> task],
                 !.status.isRunning = TRUE,
                 !.status.nextCheckTime =
                   calculateNextCheckTime(cronExpression, s.clock),
                 !.returned = TRUE]
  /\ UNCHANGED <<trackerVars, fetching, extraction, delays, app, test, web,
                 fresh, startup, logging>>

\* the jobs of the Map
Registered(s) == {s.jobs[n].job : n \in {m \in Names : s.jobs[m] # NoJob}}

\* Scheduler.start()
schedulerStart ==
  /\ scheduler' =
       [scheduler EXCEPT
         !.crons = [i \in DOMAIN scheduler.crons |->
                      IF i \in Registered(scheduler)
                      THEN jobStart(scheduler.crons, i)[i]
                      ELSE scheduler.crons[i]],
         !.status.isRunning = size(scheduler.jobs) > 0,
         !.startCalled = TRUE]
  /\ UNCHANGED <<trackerVars, fetching, extraction, delays, app, test, web,
                 fresh, startup, logging>>

\* the scheduler after stop(): every job of the Map stopped
stopAll(s) ==
  [s EXCEPT
    !.crons = [i \in DOMAIN s.crons |->
                 IF i \in Registered(s) THEN jobStop(s.crons, i)[i]
                                        ELSE s.crons[i]],
    !.status.isRunning = FALSE]

\* Scheduler.stop()
schedulerStop ==
  /\ scheduler' = stopAll(scheduler)
  /\ UNCHANGED <<trackerVars, fetching, extraction, delays, app, test, web,
                 fresh, startup, logging>>

\* the wall clock reaches the next minute: the timers of the live jobs that
\* are due in it go off
Tick ==
  /\ scheduler.clock < MaxTick
  /\ scheduler' =
       [scheduler EXCEPT
         !.clock = @ + 1,
         !.crons = [i \in DOMAIN scheduler.crons |->
                      [scheduler.crons[i] EXCEPT
                        !.armed = /\ scheduler.crons[i].live
                                  /\ due(scheduler.crons[i].cronExpression,
                                         scheduler.clock + 1)]],
         !.invoked = [n \in Names |-> 0]]
  /\ UNCHANGED <<trackerVars, fetching, extraction, delays, app, test, web,
                 fresh, startup, logging>>

\* the callback of job i up to its await: lastCheckTime, checkCount, task()
Fire(i) ==
  /\ scheduler.crons[i].live
  /\ scheduler.crons[i].armed
  /\ scheduler' =
       [scheduler EXCEPT
         !.crons[i].armed = FALSE,
         !.crons[i].inFlight = @ + 1,
         !.status.lastCheckTime = scheduler.clock,
         !.status.checkCount = @ + 1,
         !.invoked[scheduler.crons[i].name] = @ + 1]
  /\ UNCHANGED <<trackerVars, fetching, extraction, delays, app, test, web,
                 fresh, startup, logging>>

\* the promise of the callback: the catch block takes every error of the task
\* and emits it as an error event, which App's listener logs
settle(outcome) == "fulfilled"

callbackEndMutant(status, cronExpression, t, outcome) ==
  IF outcome = "threw" THEN status
  ELSE [status EXCEPT
         !.nextCheckTime = calculateNextCheckTime(cronExpression, t)]

\* the finally block of the callback: status after the task has ended
callbackEnd(status, cronExpression, t, outcome) ==
  [status EXCEPT !.nextCheckTime = calculateNextCheckTime(cronExpression, t)]

\* the task called by job i ends and the callback runs to its end
TaskEnds(i, outcome) ==
  /\ scheduler.crons[i].inFlight > 0
  /\ scheduler' =
       [scheduler EXCEPT
         !.crons[i].inFlight = @ - 1,
         !.crons[i].ended = outcome,
         !.crons[i].promise = settle(outcome),
         !.status = callbackEnd(scheduler.status,
                                scheduler.crons[i].cronExpression,
                                scheduler.clock, outcome)]
  /\ UNCHANGED <<trackerVars, fetching, extraction, delays, app, test, web,
                 fresh, startup, logging>>

executeNowMutant(name) ==
  /\ scheduler.jobs[name] # NoJob => scheduler.executions < MaxDirect
  /\ scheduler' =
       IF scheduler.jobs[name] = NoJob
       THEN [scheduler EXCEPT !.returned = FALSE]
       ELSE [scheduler EXCEPT
              !.status.lastCheckTime = scheduler.clock,
              !.status.checkCount = @ + 1,
              !.status.nextCheckTime =
                calculateNextCheckTime(scheduler.jobs[name].cronExpression,
                                       scheduler.clock),
              !.direct = @ + 1,
              !.executions = @ + 1]
  /\ UNCHANGED <<trackerVars, fetching, extraction, delays, app, test, web,
                 fresh, startup, logging>>

\* executeNow(name) up to its await: false at once when the name has no job,
\* otherwise lastCheckTime, checkCount and the call of the job's task
executeNow(name) ==
  /\ scheduler.jobs[name] # NoJob => scheduler.executions < MaxDirect
  /\ scheduler' =
       IF scheduler.jobs[name] = NoJob
       THEN [scheduler EXCEPT !.returned = FALSE]
       ELSE [scheduler EXCEPT
              !.status.lastCheckTime = scheduler.clock,
              !.status.checkCount = @ + 1,
              !.direct = @ + 1,
              !.executions = @ + 1]
  /\ UNCHANGED <<trackerVars, fetching, extraction, delays, app, test, web,
                 fresh, startup, logging>>

\* the task called by executeNow ends: true when it returned, false when it
\* threw (the error is logged and emitted)
ExecuteEnds(outcome) ==
  /\ scheduler.direct > 0
  /\ scheduler' = [scheduler EXCEPT !.direct = @ - 1,
                                    !.returned = (outcome = "returned")]
  /\ UNCHANGED <<trackerVars, fetching, extraction, delays, app, test, web,
                 fresh, startup, logging>>

\* ----------------------------------------------------------- App.shutdown
shutdownMutant(signal, writeOk) ==
  /\ ~app.exited
  /\ app.signals < MaxSignals
  /\ IF app.shuttingDown
       THEN /\ app' = [app EXCEPT !.signals = @ + 1,
                                  !.events = Append(@, "shutdown")]
            /\ UNCHANGED <<scheduler, file>>
       ELSE /\ scheduler' = stopAll(scheduler)
            /\ file' = file
            /\ app' = [app EXCEPT
                        !.signals = @ + 1,
                        !.shuttingDown = TRUE,
                        !.exited = TRUE,
                        !.events = @ \o <<"shutdown", "stop", "exit(0)">>]
  /\ UNCHANGED <<current, history, now, result, config, transporter, started,
               cyc, notifCalls, lastCall, wasZero, input, passed, fetching,
               extraction, delays, test, web, fresh, startup,
               logging>>

\* shutdown(signal), called by the handler of the signal: nothing when the
\* flag is set, otherwise scheduler.stop(), appointmentStore.save() and, in
\* the finally block, process.exit(0)
shutdown(signal, writeOk) ==
  /\ ~app.exited
  /\ app.signals < MaxSignals
  /\ IF app.shuttingDown
       THEN /\ app' = [app EXCEPT !.signals = @ + 1,
                                  !.events = Append(@, "shutdown")]
            /\ UNCHANGED <<scheduler, file>>
       ELSE /\ scheduler' = stopAll(scheduler)
            /\ file' = save(current, history, writeOk)
            /\ app' = [app EXCEPT
                        !.signals = @ + 1,
                        !.shuttingDown = TRUE,
                        !.exited = TRUE,
                        !.events =
                          @ \o <<"shutdown", "stop", "save", "exit(0)">>]
  /\ UNCHANGED <<current, history, now, result, config, transporter, started,
               cyc, notifCalls, lastCall, wasZero, input, passed, fetching,
               extraction, delays, test, web, fresh, startup,
               logging>>

\* a signal sent after the process has exited: no handler is left to run
signalLost(signal) ==
  /\ app.exited
  /\ app.signals < MaxSignals
  /\ app' = [app EXCEPT !.signals = @ + 1]
  /\ UNCHANGED <<trackerVars, scheduler, fetching, extraction, delays, test,
                 web, fresh, startup, logging>>

\* the uncaughtException handler: the error is logged and process.exit(1)
\* is set to run a second later
uncaughtException ==
  /\ ~app.exited
  /\ ~app.crashing
  /\ app' = [app EXCEPT !.crashing = TRUE, !.events = Append(@, "fatal")]
  /\ UNCHANGED <<trackerVars, scheduler, fetching, extraction, delays, test,
                 web, fresh, startup, logging>>

\* the timer of the uncaughtException handler: process.exit(1)
crashExit ==
  /\ ~app.exited
  /\ app.crashing
  /\ app' = [app EXCEPT !.exited = TRUE, !.events = Append(@, "exit(1)")]
  /\ UNCHANGED <<trackerVars, scheduler, fetching, extraction, delays, test,
                 web, fresh, startup, logging>>

\* the process ends (kill, power loss) inside the writeFileSync of the save
\* that update(type, count) makes for a changed count: the memory of the
\* store is as update set it, the file is one of the outcomes of the cut
\* write, and update does not return
CrashInSave(type, count) ==
  LET newData == AppointmentData(type, count, now)
      cur == [current EXCEPT ![type] = currentAfter(type, count, newData)]
      hist == [history EXCEPT ![type] = historyAfter(type, count, newData)]
  IN /\ ~app.exited
     /\ hasChanged(current[type], count)
     /\ current' = cur
     /\ history' = hist
     /\ file' \in interrupted(cur, hist)
     /\ app' = [app EXCEPT !.exited = TRUE, !.events = Append(@, "killed")]
     /\ UNCHANGED <<now, result, config, transporter, started, cyc,
                    notifCalls, lastCall, wasZero, input, passed, scheduler,
                    fetching, extraction, delays, test, web, fresh,
                    startup, logging>>

\* ------------------------------------------------------------- App.runTest
\* the frame of the actions of runTest
testFrame == <<scheduler, fetching, extraction, delays, app, web, fresh,
              startup, logging>>

\* the status of a site check in the report
siteStatus(count) == IF count >= 0 THEN "Success" ELSE "Failed"

\* no runTest made yet; mails counts the sendMail calls of the call
NoTest ==
  [pc |-> "idle", regularCount |-> Unassigned,
   mobileCount |-> Unassigned, mails |-> 0,
   results |-> [regularSite |-> [checked |-> FALSE, count |-> Unassigned,
                                 status |-> "none"],
                mobileSite |-> [checked |-> FALSE, count |-> Unassigned,
                                status |-> "none"],
                notification |-> [checked |-> "", status |-> "none"]]]

\* the results object runTest builds under the configuration cfg;
\* notification.checked is the value of config.hasValidEmailSettings()
results(cfg, regularCount, mobileCount, notificationResult) ==
  [regularSite |-> [checked |-> TRUE, count |-> regularCount,
                    status |-> siteStatus(regularCount)],
   mobileSite |-> [checked |-> TRUE, count |-> mobileCount,
                   status |-> siteStatus(mobileCount)],
   notification |-> [checked |-> settings(cfg),
                     status |-> notificationResult]]

\* the results object runTest returns
report(regularCount, mobileCount, notificationResult) ==
  results(config, regularCount, mobileCount, notificationResult)

\* runTest returns its report
testDone(t, notificationResult) ==
  [t EXCEPT !.pc = "done", !.regularCount = Unassigned,
            !.mobileCount = Unassigned,
            !.results = report(t.regularCount, t.mobileCount,
                               notificationResult)]

notificationTestedMutant(cfg) == TRUE

\* if (config.hasValidEmailSettings())
notificationTested(cfg) == hasValidEmailSettings(cfg)

\* runTest up to its first await: checkAppointments('regular') is called
runTest ==
  /\ test.pc \in {"idle", "done"}
  /\ test' = [NoTest EXCEPT !.pc = "regular"]
  /\ UNCHANGED <<trackerVars, testFrame, web, fresh, startup, logging>>

\* checkAppointments('regular') has returned: checkAppointments('mobile')
TestRegularChecked(count) ==
  /\ test.pc = "regular"
  /\ test' = [test EXCEPT !.pc = "mobile", !.regularCount = count]
  /\ UNCHANGED <<trackerVars, testFrame, web, fresh, startup, logging>>

TestMobileCheckedMutant(count) ==
  /\ test.pc = "mobile"
  /\ LET t == [test EXCEPT !.mobileCount = count]
     IN test' = IF ~notificationTested(config)
                  THEN testDone(t, "Not tested (email not configured)")
                ELSE IF ~transporter THEN testDone(t, "Failed")
                ELSE [t EXCEPT !.pc = "sms", !.mails = @ + 1]
  /\ IF shouldUpdate(count)
       THEN /\ hasChanged(current["mobile"], count) => now < MaxTime
            /\ update("mobile", count, TRUE)
       ELSE UNCHANGED storeVars
  /\ UNCHANGED <<result, config, transporter, started, cyc, notifCalls,
               lastCall, wasZero, input, passed, testFrame>>

\* checkAppointments('mobile') has returned: the notification test is
\* skipped without email settings, sendTestNotification returns false
\* without a transporter and otherwise sends to the SMS gateway
TestMobileChecked(count) ==
  /\ test.pc = "mobile"
  /\ LET t == [test EXCEPT !.mobileCount = count]
     IN test' = IF ~notificationTested(config)
                  THEN testDone(t, "Not tested (email not configured)")
                ELSE IF ~transporter THEN testDone(t, "Failed")
                ELSE [t EXCEPT !.pc = "sms", !.mails = @ + 1]
  /\ UNCHANGED <<trackerVars, testFrame, web, fresh, startup, logging>>

\* sendTestNotification: the SMS went out, the email is sent
TestSmsSent ==
  /\ test.pc = "sms"
  /\ test' = [test EXCEPT !.pc = "email", !.mails = @ + 1]
  /\ UNCHANGED <<trackerVars, testFrame, web, fresh, startup, logging>>

\* sendTestNotification: the email went out; true
TestEmailSent ==
  /\ test.pc = "email"
  /\ test' = testDone(test, "Success")
  /\ UNCHANGED <<trackerVars, testFrame, web, fresh, startup, logging>>

\* sendTestNotification: a sendMail failed; false, with no retry
TestSendFail ==
  /\ test.pc \in {"sms", "email"}
  /\ test' = testDone(test, "Failed")
  /\ UNCHANGED <<trackerVars, testFrame, web, fresh, startup, logging>>

\* -------------------------------------------------------- POST /api/config
\* the keys of CONFIG_SCHEMA a request can set
Keys == {"TRACKER_CHECK_INTERVAL", "TRACKER_EMAIL_SENDER",
         "TRACKER_EMAIL_RECIPIENT", "TRACKER_EMAIL_PASSWORD"}

\* a field the request leaves out or leaves empty; a variable of process.env
\* that is not set
Empty == ""

\* values of the fields of a request, checkIntervalMinutes as the string
\* process.env holds once it is assigned
Fields(key) ==
  CASE key = "TRACKER_CHECK_INTERVAL" -> {"5", "0", "abc"}
    [] key = "TRACKER_EMAIL_SENDER" ->
         {"tracker@example.com", "Tracker <tracker@example.com>", "tracker"}
    [] key = "TRACKER_EMAIL_RECIPIENT" ->
         {"user@example.com", "other@example.com"}
    [] key = "TRACKER_EMAIL_PASSWORD" -> {"secret"}

\* req.body, by the key each field is written to
ConfigBodies ==
  {body \in [Keys -> UNION {Fields(k) : k \in Keys} \cup {Empty}] :
     \A k \in Keys : body[k] \in Fields(k) \cup {Empty}}

\* Number(value) of the strings that are numerals; NaN for the others
numerals == [s \in {"5", "0"} |-> IF s = "5" THEN 5 ELSE 0]

\* the address inside "Name <address>", else the string as it is
address(sender) ==
  IF sender = "Tracker <tracker@example.com>" THEN "tracker@example.com"
                                              ELSE sender

\* /^[^\s@]+@[^\s@]+\.[^\s@]+$/ on the strings of the model
emailRegex(a) ==
  a \in {"tracker@example.com", "user@example.com", "other@example.com"}

\* the type coercion and the validate function of a key in getEnv
valid(key, value) ==
  CASE key = "TRACKER_CHECK_INTERVAL" ->
         value \in DOMAIN numerals /\ numerals[value] > 0
    [] key = "TRACKER_EMAIL_SENDER" -> emailRegex(address(value))
    [] key \in {"TRACKER_REGULAR_URL", "TRACKER_MOBILE_URL"} ->
         value \in {"https://example.com/regular",
                    "https://example.com/mobile"}
    [] OTHER -> TRUE

\* the value getEnv returns for a valid string
parse(key, value) ==
  IF key = "TRACKER_CHECK_INTERVAL" THEN numerals[value] ELSE value

\* the default of a key in CONFIG_SCHEMA
Default(key) ==
  CASE key = "TRACKER_CHECK_INTERVAL" -> 10
    [] key = "TRACKER_REGULAR_URL" ->
         "https://telegov.njportal.com/njmvc/AppointmentWizard"
    [] key = "TRACKER_MOBILE_URL" ->
         "https://telegov.njportal.com/njmvcmobileunit/AppointmentWizard"
    [] OTHER -> Empty

\* the keys loadConfig collects an error for
errors(env) == {k \in Keys : env[k] # Empty /\ ~valid(k, env[k])}

\* Config.loadConfig(): this.values afterwards; a key whose getEnv throws
\* keeps its value, every other key is assigned
loadConfig(values, env) ==
  [k \in Keys |-> IF env[k] = Empty THEN Default(k)
                  ELSE IF valid(k, env[k]) THEN parse(k, env[k])
                  ELSE values[k]]

\* ------------------------------------------------------------- Logger
\* LOG_LEVELS, by the names setLevel and _log look up
LOG_LEVELS == [DEBUG |-> 10, INFO |-> 20, WARN |-> 30, ERROR |-> 40,
               FATAL |-> 50]

\* level.toLowerCase()
toLowerCase(level) ==
  CASE level = "DEBUG" -> "debug"
    [] level = "ERROR" -> "error"
    [] OTHER -> level

\* the name in LOG_LEVELS a configured level stands for
named(level) ==
  CASE toLowerCase(level) = "debug" -> "DEBUG"
    [] toLowerCase(level) = "info" -> "INFO"
    [] toLowerCase(level) = "warn" -> "WARN"
    [] toLowerCase(level) = "error" -> "ERROR"
    [] toLowerCase(level) = "fatal" -> "FATAL"

\* Logger.setLevel(level): LOG_LEVELS[level] is looked up under the name as
\* it is given, and a name that is not a key gives INFO
setLevel(level) ==
  IF level \in DOMAIN LOG_LEVELS THEN LOG_LEVELS[level]
                                  ELSE LOG_LEVELS["INFO"]

\* App.init() with TRACKER_LOG_LEVEL = level: nothing when the app is
\* initialized already, else logger.setLevel(config.get(...) || 'info')
init(level) ==
  /\ logging' = IF logging.initialized THEN logging
                ELSE [logging EXCEPT !.initialized = TRUE, !.level = level,
                                     !.minLevel = setLevel(level)]
  /\ UNCHANGED <<trackerVars, scheduler, fetching, extraction, delays, app,
                 test, web, fresh, startup>>

\* Logger._log(name, ...): the entry is skipped when LOG_LEVELS[name] is
\* below minLevel and written otherwise
log(name) ==
  /\ logging.initialized
  /\ logging' = IF LOG_LEVELS[name] < logging.minLevel THEN logging
                ELSE [logging EXCEPT !.emitted = @ \cup {name}]
  /\ UNCHANGED <<trackerVars, scheduler, fetching, extraction, delays, app,
                 test, web, fresh, startup>>

\* ----------------------------------------------------- new Config()
\* the keys of CONFIG_SCHEMA with required: true
UrlKeys == {"TRACKER_REGULAR_URL", "TRACKER_MOBILE_URL"}

\* the keys a process is started with in the model
StartKeys == UrlKeys \cup {"TRACKER_CHECK_INTERVAL", "TRACKER_EMAIL_SENDER"}

\* values of a variable of the environment at the start of a process
Settings(key) ==
  IF key \in UrlKeys
    THEN {"https://example.com/regular", "https://example.com/mobile",
          "telegov"}
    ELSE Fields(key)

\* required of a key in CONFIG_SCHEMA
required(key) == key \in UrlKeys

\* this.values[key] of a key that was never assigned
Undefined == "undefined"

\* getEnv(key, defaultValue, {required, type, validate}) over the value of
\* the variable: it throws for a required key that is not set before the
\* default is looked at, returns the default for another key that is not
\* set, and throws for a value that fails the coercion or the validation
getEnv(key, value) ==
  IF required(key) /\ value = Empty THEN [threw |-> TRUE, value |-> Undefined]
  ELSE IF value = Empty THEN [threw |-> FALSE, value |-> Default(key)]
  ELSE IF ~valid(key, value) THEN [threw |-> TRUE, value |-> Undefined]
  ELSE [threw |-> FALSE, value |-> parse(key, value)]

\* const config = new Config(): this.values = {} and loadConfig() over
\* process.env; failed when loadConfig throws
Config(env) ==
  /\ ~startup.done
  /\ startup' =
       [done |-> TRUE,
        failed |-> \E k \in StartKeys : getEnv(k, env[k]).threw,
        env |-> env,
        values |-> [k \in StartKeys |-> getEnv(k, env[k]).value],
        errors |-> {k \in StartKeys : getEnv(k, env[k]).threw}]
  /\ UNCHANGED <<trackerVars, scheduler, fetching, extraction, delays, app,
                 test, web, fresh, logging>>

\* POST /api/config: 400 at once for a sender that fails the check of the
\* route; otherwise process.env is assigned for every field that is not
\* empty, config.loadConfig() is called, and the response is 400 when it
\* throws and 200 when it does not
postApiConfig(body) ==
  /\ web' =
       IF /\ body["TRACKER_EMAIL_SENDER"] # Empty
          /\ ~emailRegex(address(body["TRACKER_EMAIL_SENDER"]))
       THEN [web EXCEPT !.status = 400]
       ELSE LET env == [k \in Keys |-> IF body[k] # Empty THEN body[k]
                                                          ELSE web.env[k]]
            IN [env |-> env,
                values |-> loadConfig(web.values, env),
                status |-> IF errors(env) = {} THEN 200 ELSE 400]
  /\ UNCHANGED <<trackerVars, scheduler, fetching, extraction, delays, app,
                 test, fresh, startup, logging>>

\* ---------------------------------------------------------- _fetchHtml
\* response bodies: the count the page shows (Unknown: none that can be
\* read) and whether _detectStructureChange finds the page changed
Bodies == [shows : Counts \cup {Unknown}, changed : BOOLEAN]

NoBody == [shows |-> Unassigned, changed |-> FALSE]

NoFetching == [pc |-> "none", type |-> "regular", limit |-> 0, retries |-> 0,
               requests |-> 0, errors |-> <<>>, body |-> NoBody,
               thrown |-> "null", debug |-> FALSE, count |-> Unassigned]

exceededMutant(retries, limit) == retries >= limit

\* if (retries > maxRetries) throw, and the loop test retries <= maxRetries
exceeded(retries, limit) == retries > limit

\* _fetchHtml(url, type) is called with TRACKER_MAX_RETRIES = limit: the
\* loop is entered with retries = 0 and the first request is issued
fetchHtml(type, limit) ==
  /\ fetching.pc = "none"
  /\ ~exceeded(0, limit)
  /\ fetching' = [NoFetching EXCEPT !.pc = "request", !.type = type,
                                    !.limit = limit, !.requests = 1]
  /\ UNCHANGED <<trackerVars, scheduler, extraction, delays, app, test, web,
                 fresh, startup, logging>>

\* the request is answered with a 2xx response: a changed page structure
\* is saved for debugging, and response.data is returned
FetchResponse(body) ==
  /\ fetching.pc = "request"
  /\ fetching' = [fetching EXCEPT !.pc = "returned", !.body = body,
                                  !.debug = body.changed]
  /\ UNCHANGED <<trackerVars, scheduler, extraction, delays, app, test, web,
                 fresh, startup, logging>>

\* the request fails: retries++, lastError = error; past the limit the
\* error is thrown with the message of lastError, and otherwise the loop
\* goes round and waits for the backoff delay
FetchError(failure) ==
  /\ fetching.pc = "request"
  /\ fetching' =
       [fetching EXCEPT
          !.retries = @ + 1,
          !.errors = Append(@, failure),
          !.pc = IF exceeded(fetching.retries + 1, fetching.limit)
                   THEN "thrown" ELSE "backoff",
          !.thrown = IF exceeded(fetching.retries + 1, fetching.limit)
                       THEN failure ELSE "null"]
  /\ UNCHANGED <<trackerVars, scheduler, extraction, delays, app, test, web,
                 fresh, startup, logging>>

\* the backoff delay has passed: the next request is issued
FetchRetry ==
  /\ fetching.pc = "backoff"
  /\ fetching' = [fetching EXCEPT !.pc = "request", !.requests = @ + 1]
  /\ UNCHANGED <<trackerVars, scheduler, extraction, delays, app, test, web,
                 fresh, startup, logging>>

checkAppointmentsReturnsMutant ==
  /\ fetching.pc \in {"returned", "thrown"}
  /\ fetching' =
       IF fetching.pc = "returned" /\ fetching.body.shows = Unknown
            /\ ~exceeded(fetching.retries + 1, fetching.limit)
         THEN [fetching EXCEPT !.pc = "backoff", !.retries = @ + 1,
                               !.errors = Append(@, "http_status")]
         ELSE [fetching EXCEPT
                 !.pc = "done",
                 !.count = IF fetching.pc = "returned"
                             THEN fetching.body.shows ELSE Unknown]
  /\ UNCHANGED <<trackerVars, scheduler, extraction, delays, app, test, web,
                 fresh, startup, logging>>

\* checkAppointments after its await of _fetchHtml: the count extracted
\* from the page is returned when there is one, -1 when no count can be
\* extracted, and -1 from the catch block when _fetchHtml threw
checkAppointmentsReturns ==
  /\ fetching.pc \in {"returned", "thrown"}
  /\ fetching' = [fetching EXCEPT
                    !.pc = "done",
                    !.count = IF fetching.pc = "returned"
                                THEN fetching.body.shows ELSE Unknown]
  /\ UNCHANGED <<trackerVars, scheduler, extraction, delays, app, test, web,
                 fresh, startup, logging>>

\* ------------------------------------------- _extractAppointmentCount
\* countText.match(/(\d+)/) is null: the text holds no integer
NoMatch == -3

\* the title text of the target's card
Label(type) == IF type = "regular" THEN "REAL ID" ELSE "REAL ID - MOBILE"

\* SELECTOR_STRATEGIES[type]: the third entry has no titleText
SELECTOR_STRATEGIES(type) ==
  << [name |-> "Primary Strategy", titleText |-> Label(type)],
     [name |-> "Fallback Strategy", titleText |-> Label(type)],
     [name |-> "Last Resort Strategy", titleText |-> "undefined"] >>

\* what one strategy's selectors find in a page for the target: the text of
\* the element under titleSelector ("absent": no element), whether its
\* parent holds an element under countSelector, and the integer in that
\* element's text
Finds ==
  { f \in [title : {"absent"} \cup {Label(t) : t \in Types},
           element : BOOLEAN,
           digits : Counts \cup {NoMatch}] :
      /\ f.title = "absent" => ~f.element
      /\ ~f.element => f.digits = NoMatch }

\* the markup of a page of the given target, as the extraction sees it
Pages(type) ==
  \* what the generic scan finds: whether an element containing the label
  \* lies in a card, and the integer of the first "N Appointments Available"
  \* text of that card
  { p \in [sel : [1..3 -> Finds],
            scan : { f \in [card : BOOLEAN, digits : Counts \cup {NoMatch}] :
                       ~f.card => f.digits = NoMatch }] :
      \A i \in 1..3 : p.sel[i].title \in {"absent", Label(type)} }

\* if (title === strategy.titleText) found = true
found(type, page, i) ==
  /\ page.sel[i].title # "absent"
  /\ page.sel[i].title = SELECTOR_STRATEGIES(type)[i].titleText

\* let count = 0, replaced by parseInt(match[0], 10) when the count element
\* exists and its text holds an integer
parsed(page, i) ==
  IF page.sel[i].element /\ page.sel[i].digits # NoMatch
    THEN page.sel[i].digits ELSE 0

scannedMutant(page) == Unknown

\* the alternative extraction method: the count of the scan, or -1
scanned(page) ==
  IF page.scan.card /\ page.scan.digits # NoMatch
    THEN page.scan.digits ELSE Unknown

\* for (const strategy of strategies) ... if (found) return count, from
\* strategy i on; then the alternative method
RECURSIVE tryStrategies(_, _, _)
tryStrategies(type, page, i) ==
  IF i > 3
    THEN [value |-> scanned(page),
          by |-> IF scanned(page) = Unknown THEN "none" ELSE "alternative"]
    ELSE IF found(type, page, i)
      THEN [value |-> parsed(page, i),
            by |-> SELECTOR_STRATEGIES(type)[i].name]
      ELSE tryStrategies(type, page, i + 1)

\* _extractAppointmentCount(html, type); when every strategy failed the
\* markup is saved by _saveDebugHtml, whose write may fail (writeOk) and
\* whose error is caught and logged
extractAppointmentCount(type, page, writeOk) ==
  LET r == tryStrategies(type, page, 1) IN
  /\ extraction.pc = "none"
  /\ extraction' = [pc |-> "returned", type |-> type, page |-> page,
                    value |-> r.value, by |-> r.by,
                    debug |-> IF r.by # "none" THEN "none"
                              ELSE IF writeOk THEN "saved" ELSE "failed"]
  /\ UNCHANGED <<trackerVars, scheduler, fetching, delays, app, test, web,
                 fresh, startup, logging>>

\* -------------------------------------------------- _calculateBackoff
\* const baseDelay = 2000
baseDelay == 2000

\* const maxDelay = 60000
maxDelay == 60000

\* Math.random() * 1000, in whole milliseconds: samples of [0, 1000)
Jitters == {0, 1, 499, 500, 999}

Min(a, b) == IF a <= b THEN a ELSE b

scraperBackoffMutant(attempt, jitter) ==
  Min(baseDelay * 2^attempt, maxDelay) + jitter

\* Scraper._calculateBackoff(attempt), jitter being the random draw
scraperBackoff(attempt, jitter) ==
  Min(baseDelay * 2^attempt + jitter, maxDelay)

\* Notifier._calculateBackoff(attempt), jitter being the random draw
notifierBackoff(attempt, jitter) ==
  Min(baseDelay * 2^attempt + jitter, maxDelay)

\* both functions are called for attempt and for attempt + 1, each call
\* drawing its own jitter
calculateBackoff(attempt, jitter, jitterNext) ==
  /\ delays' = [pc |-> "done", attempt |-> attempt, jitter |-> jitter,
                jitterNext |-> jitterNext,
                scraper |-> scraperBackoff(attempt, jitter),
                scraperNext |-> scraperBackoff(attempt + 1, jitterNext),
                notifier |-> notifierBackoff(attempt, jitter),
                notifierNext |-> notifierBackoff(attempt + 1, jitterNext)]
  /\ UNCHANGED <<trackerVars, scheduler, fetching, extraction, app, test, web,
                 fresh, startup, logging>>

\* --------------------------------------------------------- specifications
\* the components not yet called
ComponentsAtRest ==
  \* new Scheduler(); crons are the jobs node-cron has created, clock the minute
  \* of the wall clock, invoked the tasks called per name in the current minute,
  \* direct the executeNow calls awaiting their task, executions those made
  /\ scheduler = [jobs |-> [n \in Names |-> NoJob],
                  crons |-> <<>>,
                  status |-> [isRunning |-> FALSE, lastCheckTime |-> Never,
                              nextCheckTime |-> Never, checkCount |-> 0,
                              missedChecks |-> 0],
                  clock |-> 0,
                  invoked |-> [n \in Names |-> 0],
                  startCalled |-> FALSE,
                  direct |-> 0,
                  executions |-> 0,
                  returned |-> FALSE]
  /\ fetching = NoFetching
  /\ extraction =
       [pc |-> "none", type |-> "regular",
        page |-> [sel |-> [i \in 1..3 |->
                            [title |-> "absent", element |-> FALSE,
                             digits |-> NoMatch]],
                  scan |-> [card |-> FALSE, digits |-> NoMatch]],
        value |-> Unassigned, by |-> "none", debug |-> "none"]
  /\ delays = [pc |-> "none", attempt |-> 0, jitter |-> 0, jitterNext |-> 0,
               scraper |-> 0, scraperNext |-> 0,
               notifier |-> 0, notifierNext |-> 0]
  \* new App(): the flag, whether the process has exited, whether the
  \* uncaughtException handler has set its exit timer, the signals sent so
  \* far, and what the process did on its way out, in order
  /\ app = [shuttingDown |-> FALSE, exited |-> FALSE, crashing |-> FALSE,
            signals |-> 0, events |-> <<>>]
  /\ test = NoTest
  \* the process after it has started with nothing set; status is the HTTP
  \* status of the last response
  /\ web = [env |-> [k \in Keys |-> Empty],
            values |-> [k \in Keys |-> Default(k)],
            status |-> 0]
  /\ fresh = NoFresh
  \* no Config built yet
  /\ startup = [done |-> FALSE, failed |-> FALSE,
                env |-> [k \in StartKeys |-> Empty],
                values |-> [k \in StartKeys |-> Undefined],
                errors |-> {}]
  \* the logger of app.js before init(): a child of the default logger with
  \* minLevel INFO; emitted holds the levels of the entries written after
  \* init()
  /\ logging = [initialized |-> FALSE, level |-> "info",
                minLevel |-> LOG_LEVELS["INFO"], emitted |-> {}]

Init ==
  /\ current = [t \in Types |-> Null]
  /\ history = [t \in Types |-> <<>>]
  \* the state file: whole is FALSE for a file that holds only a part of
  \* what a write meant to put there
  /\ file = [exists |-> FALSE, whole |-> TRUE,
             current |-> [t \in Types |-> Null],
             history |-> [t \in Types |-> <<>>]]
  /\ now = 0
  /\ result = [type |-> "null", count |-> 0, previousCount |-> 0,
               hasChanged |-> FALSE, becameAvailable |-> FALSE, timestamp |-> 0]
  /\ config \in EmailConfigs
  /\ transporter = hasValidEmailSettings(config)
  /\ started = FALSE
  /\ cyc = [c \in Cycles |-> IdleCycle]
  /\ notifCalls = [t \in Types |-> 0]
  /\ lastCall = [type |-> "null", count |-> 0]
  /\ wasZero = [t \in Types |-> TRUE]
  /\ input = [type |-> "null", count |-> 0]
  /\ passed = [t \in Types |-> NonePassed]
  /\ ComponentsAtRest

Next ==
  \/ start
  \/ appointmentCheck
  \/ \E c \in Cycles :
    \/ RequestFail(c)
    \* what checkAppointments resolves with in the check cycles: no
    \* appointment, one, the largest count, or Unknown when none is found
    \/ \E count \in {0, 1, MaxCount, Unknown} : ResponseOk(c, count)
    \/ Check(c, TRUE)
    \/ SmsSent(c)
    \/ EmailSent(c)
    \/ SendFail(c)
    \/ AfterSend(c)

Spec == Init /\ [][Next]_vars

StoreNext ==
  \E type \in Types, count \in Counts \cup {Unknown} :
    StoreCall(type, count, TRUE)

\* the store harness runs without a notifier
InitStore == Init /\ ~config.credentials

SpecStore == InitStore /\ [][StoreNext]_vars

\* _fetchHtml called on its own
FetchNext ==
  \/ \E type \in Types, limit \in 0..maxRetries : fetchHtml(type, limit)
  \/ \E body \in Bodies : FetchResponse(body)
  \* what makes a request fail: a response outside 2xx (validateStatus), no
  \* response received, or the request timeout
  \/ \E failure \in {"http_status", "network", "timeout"} :
       FetchError(failure)
  \/ FetchRetry

SpecFetch == InitStore /\ [][FetchNext]_vars

\* one call of checkAppointments: _fetchHtml and what is made of its result
CheckNext == FetchNext \/ checkAppointmentsReturns

SpecCheck == InitStore /\ [][CheckNext]_vars

\* _extractAppointmentCount called on its own
ExtractNext ==
  \E type \in Types, writeOk \in BOOLEAN :
    \E page \in Pages(type) : extractAppointmentCount(type, page, writeOk)

SpecExtract == InitStore /\ [][ExtractNext]_vars

\* the backoff functions called on their own
BackoffNext ==
  \E attempt \in 0..MaxAttempt, jitter \in Jitters, jitterNext \in Jitters :
    calculateBackoff(attempt, jitter, jitterNext)

SpecBackoff == InitStore /\ [][BackoffNext]_vars

\* the Scheduler driven on its own, with tasks that return or throw
SchedNext ==
  \/ \E r \in Requests : schedule(r.name, r.cronExpression, r.task)
  \/ schedulerStart
  \/ schedulerStop
  \/ Tick
  \/ \E i \in DOMAIN scheduler.crons :
    \/ Fire(i)
    \/ \E outcome \in Outcomes : TaskEnds(i, outcome)

SpecSched == InitStore /\ [][SchedNext]_vars

\* the Scheduler as App uses it, one job name and one expression, with
\* executeNow called at any time
ExecNext ==
  \/ schedule("appointmentCheck", 1, "runCheck")
  \/ schedulerStart
  \/ schedulerStop
  \/ Tick
  \/ \E i \in DOMAIN scheduler.crons :
    \/ Fire(i)
    \/ \E outcome \in Outcomes : TaskEnds(i, outcome)
  \/ \E name \in Names : executeNow(name)
  \/ \E outcome \in Outcomes : ExecuteEnds(outcome)

SpecExec == InitStore /\ [][ExecNext]_vars

\* the store driven by update calls on a disk that may refuse any write
WriteNext ==
  \E type \in Types, count \in Counts, writeOk \in BOOLEAN :
    /\ now < MaxTime
    /\ StoreCall(type, count, writeOk)

SpecWrite == InitStore /\ [][WriteNext]_vars

\* the store of one run, and the store the next startup builds over the
\* file that run left
LoadNext ==
  \/ \E type \in Types, count \in {0, 1}, writeOk \in BOOLEAN :
       /\ ~fresh.built
       /\ now < MaxTime
       /\ StoreCall(type, count, writeOk)
  \/ \E type \in Cleared, writeOk \in BOOLEAN :
       ~fresh.built /\ ClearCall(type, writeOk)
  \/ \E type \in Types, i \in 1..maxHistory :
       ~fresh.built /\ Damage(type, i)
  \/ \E readable \in BOOLEAN : constructor(readable)

SpecLoad == InitStore /\ [][LoadNext]_vars

\* the store under update calls, before and after one restart of the
\* process
RestartNext ==
  \/ \E type \in Types, count \in Counts, writeOk \in BOOLEAN :
       /\ now < MaxTime
       /\ StoreCall(type, count, writeOk)
  \/ \E readable \in BOOLEAN : restart(readable)

SpecRestart == InitStore /\ [][RestartNext]_vars

\* the web interface posting configuration, one request after another
ConfigNext == \E body \in ConfigBodies : postApiConfig(body)

SpecConfig == InitStore /\ [][ConfigNext]_vars

\* the start of a process under every environment of the model
\* process.env at the start of a process
StartupNext ==
  \E env \in {e \in [StartKeys ->
                       UNION {Settings(k) : k \in StartKeys} \cup {Empty}] :
                \A k \in StartKeys : e[k] \in Settings(k) \cup {Empty}} :
    Config(env)

SpecStartup == InitStore /\ [][StartupNext]_vars

\* App.init() under every accepted TRACKER_LOG_LEVEL, and the entries
\* logged after it
LogNext ==
  \* values of TRACKER_LOG_LEVEL the validate function of the key accepts:
  \* level.toLowerCase() is one of debug, info, warn, error, fatal, and the
  \* value is stored as it was written
  \/ \E level \in {"debug", "info", "warn", "error", "fatal",
                   "DEBUG", "ERROR"} : init(level)
  \/ \E name \in DOMAIN LOG_LEVELS : log(name)

SpecLog == InitStore /\ [][LogNext]_vars

\* runTest called at any time between updates of the store and posts of the
\* email configuration
TestNext ==
  \/ runTest
  \/ \E count \in Counts \cup {Unknown} :
    \/ TestRegularChecked(count)
    \/ TestMobileChecked(count)
  \/ TestSmsSent
  \/ TestEmailSent
  \/ TestSendFail
  \/ \E type \in Types, count \in {0, 1} :
       /\ now < MaxTime
       /\ StoreCall(type, count, TRUE)
  \/ \E email \in EmailConfigs : postConfig(email)

SpecTest == Init /\ [][TestNext]_vars

\* the process from start to exit: the job is scheduled, counts are stored on
\* a disk that may refuse a write, signals arrive and exceptions escape
ShutdownNext ==
  \/ /\ ~app.exited
     /\ \/ schedule("appointmentCheck", 1, "runCheck")
        \/ \E type \in Types, count \in Counts, writeOk \in BOOLEAN :
             /\ now < MaxTime
             /\ StoreCall(type, count, writeOk)
  \* the signals App registers shutdown for
  \/ \E signal \in {"SIGINT", "SIGTERM"} :
    \/ \E writeOk \in BOOLEAN : shutdown(signal, writeOk)
    \/ signalLost(signal)
  \/ uncaughtException
  \/ crashExit

SpecShutdown == InitStore /\ [][ShutdownNext]_vars

\* the store under update calls, with a process that can end inside a save
CrashNext ==
  \E type \in Types, count \in Counts :
    \/ \E writeOk \in BOOLEAN :
         /\ ~app.exited
         /\ now < MaxTime
         /\ StoreCall(type, count, writeOk)
    \/ CrashInSave(type, count)

SpecCrash == InitStore /\ [][CrashNext]_vars

\* check cycles with the tracker stopped and started again at any time, on
\* pages that show no appointment or one
StopNext ==
  \/ start
  \/ stop
  \/ appointmentCheck
  \/ \E c \in Cycles :
    \/ RequestFail(c)
    \/ \E count \in {0, 1, Unknown} : ResponseOk(c, count)
    \/ Check(c, TRUE)
    \/ SmsSent(c)
    \/ EmailSent(c)
    \/ SendFail(c)
    \/ AfterSend(c)

SpecStop == Init /\ [][StopNext]_vars

\* check cycles with the web interface posting configuration at any time
ReloadNext ==
  \/ Next
  \/ \E email \in EmailConfigs : postConfig(email)

SpecReload == Init /\ [][ReloadNext]_vars

\* ------------------------------------------------------------- properties
\* a step of the store harness: update was called with the arguments input'
Called ==
  <<input, result, passed, storeVars>>' # <<input, result, passed, storeVars>>

\* a step taken by cycle c
Moves(c) == cyc'[c] # cyc[c]

\* C1: sendNotification is called for a type at most once per 0->positive
\* transition of its stored count: whenever a call is made for a type, the
\* stored count of that type has been 0 (or missing) at some point since the
\* previous call for that type, and one step makes at most one call.
C1_OncePerTransition ==
  [][\A t \in Types :
       notifCalls'[t] # notifCalls[t] =>
         wasZero[t] /\ notifCalls'[t] = notifCalls[t] + 1]_vars

C1_Witness == \E t \in Types : notifCalls[t] = 2

\* C2 as stated: for a known count c and previous state p, update returns
\* becameAvailable = (p.count = 0 and c > 0) and changed = (c # p.count),
\* a missing previous state counting as 0.
C2_AsStated ==
  [][Called /\ input'.count >= 0 =>
       LET p == previousCount(current[input'.type])
           c == input'.count
       IN /\ result'.becameAvailable = (p = 0 /\ c > 0)
          /\ result'.hasChanged = (c # p)]_vars

\* C2 amended: becameAvailable = (p.count = 0 and c > 0), a missing previous
\* state counting as 0, and changed = (p is missing or c # p.count).
C2_Amended ==
  [][Called /\ input'.count >= 0 =>
       LET prev == current[input'.type]
           p == previousCount(prev)
           c == input'.count
       IN /\ result'.becameAvailable = (p = 0 /\ c > 0)
          /\ result'.hasChanged = (prev = Null \/ c # p)
          /\ result'.previousCount = p]_vars

C2_Witness ==
  /\ result.becameAvailable
  /\ result.hasChanged
  /\ Len(history[result.type]) >= 2

\* C3: update with the sentinel -1 returns changed = false and leaves
\* CurrentState, History and the persisted file as they were.
C3_UnknownIsNoOp ==
  [][Called /\ input'.count = Unknown =>
       /\ result'.hasChanged = FALSE
       /\ UNCHANGED <<current, history, file>>]_vars

C5_HistoryCapped ==
  /\ [](\A t \in Types :
          /\ Len(history[t]) <= maxHistory
          /\ \A i, j \in 1..Len(history[t]) :
               i < j => history[t][i].timestamp > history[t][j].timestamp)
  /\ [][\A t \in Types :
          \/ history'[t] # history[t]
          \/ /\ Called
             /\ input'.type = t
             /\ input'.count > 0
             /\ previousCount(current[t]) = 0
          =>
            /\ Len(history'[t]) =
                 IF Len(history[t]) < maxHistory THEN Len(history[t]) + 1
                 ELSE maxHistory
            /\ history'[t][1].timestamp = now
            /\ \A i \in 2..Len(history'[t]) :
                 history'[t][i] = history[t][i - 1]]_vars

C5_Witness ==
  \E t \in Types :
    /\ Len(history[t]) = maxHistory
    /\ passed[t].known
    /\ Len(passed[t].transitions) > maxHistory

\* C6: when only known counts were passed to update for a type, starting
\* from the empty store, and the 0->positive transitions among them do not
\* exceed the cap, the History of the type has one entry per transition,
\* each with the positive count of its transition.
C6_EntryPerTransition ==
  \A t \in Types :
    passed[t].known /\ Len(passed[t].transitions) <= maxHistory
      => /\ Len(history[t]) = Len(passed[t].transitions)
         /\ \A i \in 1..Len(history[t]) :
              history[t][i].count = passed[t].transitions[i]

C6_Witness ==
  /\ passed["regular"] = [last |-> 1, known |-> TRUE, transitions |-> <<1, 2>>]
  /\ Len(history["regular"]) = 2
  /\ history["regular"][1].count = 1
  /\ history["regular"][2].count = 2

\* C7: when a cycle has read a positive count for a type whose stored count
\* is already positive (equal or not), its update step calls no
\* sendNotification and leaves the History of that type as it was.
C7_NoRenotify ==
  [][\A c \in Cycles :
       /\ cyc[c].pc = "checked"
       /\ cyc[c].count > 0
       /\ StoredCount(cyc[c].type) > 0
       /\ Moves(c)
       => /\ notifCalls' = notifCalls
          /\ cyc'[c].pc \notin {"sms", "email", "sent"}
          /\ history'[cyc[c].type] = history[cyc[c].type]
          /\ current'[cyc[c].type].count = cyc[c].count]_vars

C7_Witness ==
  \E c \in Cycles :
    /\ cyc[c].pc = "checked"
    /\ cyc[c].count > 0
    /\ StoredCount(cyc[c].type) > 0
    /\ cyc[c].count # StoredCount(cyc[c].type)
    /\ notifCalls[cyc[c].type] = 1

\* C8: a failed request that is retried, and the response that ends the
\* retries, change neither the store nor the number of sendNotification
\* calls, and the response hands the count it read to runCheck; when that
\* count is positive while the stored count is 0, the cycle calls
\* sendNotification once for that type with the count read, and makes no
\* further call while that one is in progress.
C8_RetryThenNotify ==
  [][\A c \in Cycles :
       /\ (cyc[c].pc = "fetch" /\ Moves(c) =>
             /\ UNCHANGED <<current, history, file, notifCalls, lastCall>>
             /\ \/ /\ cyc'[c].pc = "fetch"
                   /\ cyc'[c].retries = cyc[c].retries + 1
                   /\ cyc'[c].retries <= maxRetries
                \/ /\ cyc'[c].pc = "checked"
                   /\ cyc'[c].count \in Counts \cup {Unknown}
             /\ cyc'[c].type = cyc[c].type)
       /\ (/\ cyc[c].pc = "checked"
           /\ cyc[c].count > 0
           /\ StoredCount(cyc[c].type) = 0
           /\ Moves(c)
           => /\ notifCalls' =
                   [notifCalls EXCEPT ![cyc[c].type] = @ + 1]
              /\ lastCall' = [type |-> cyc[c].type, count |-> cyc[c].count]
              /\ cyc'[c].pc \in {"sms", "sent"}
              /\ cyc'[c].type = cyc[c].type
              /\ current'[cyc[c].type].count = cyc[c].count)
       /\ (cyc[c].pc \in {"sms", "email", "sent"} /\ Moves(c)
           => UNCHANGED <<notifCalls, lastCall>>)]_vars

\* a request has failed maxRetries times and is tried again while the
\* stored count of its type, notified once before, is back at 0
C8_Witness ==
  \E c \in Cycles :
    /\ cyc[c].pc = "fetch"
    /\ cyc[c].retries = maxRetries
    /\ current[cyc[c].type] # Null
    /\ StoredCount(cyc[c].type) = 0
    /\ notifCalls[cyc[c].type] = 1

\* C9: every message sendNotification hands to the transport is addressed
\* to a configured recipient (an address of TRACKER_EMAIL_RECIPIENT).
C9_ConfiguredRecipients ==
  \A c \in Cycles : \A a \in Addresses :
    cyc[c].sentTo[a] > 0 => a \in config.recipients

\* C10: sendNotification never raises: a call ends with true or false, true
\* exactly when the email of a round was delivered and false when the
\* retries are exhausted or no transporter is set; and after the call for
\* the regular type has ended the cycle goes on to check the mobile type.
C10_NeverRaises ==
  [][\A c \in Cycles :
       /\ (cyc'[c].pc = "sent" /\ Moves(c) =>
             /\ cyc'[c].sendResult \in {"true", "false"}
             /\ cyc'[c].sendResult = "true" =>
                  /\ cyc[c].pc = "email"
                  /\ cyc[c].sendRetries <= maxRetries
                  /\ cyc[c].sentTo[phoneNumber] >= 1
             /\ cyc'[c].sendResult = "false" =>
                  \/ cyc[c].pc = "checked" /\ ~transporter
                  \/ /\ cyc[c].pc \in {"sms", "email"}
                     /\ cyc[c].sendRetries = maxRetries)
       /\ (cyc[c].pc = "sent" /\ cyc[c].type = "regular" /\ Moves(c) =>
             cyc'[c].pc = "fetch" /\ cyc'[c].type = "mobile")]_vars

C10_Witness ==
  \E c \in Cycles :
    /\ cyc[c].pc = "sent"
    /\ cyc[c].type = "regular"
    /\ cyc[c].sendResult = "false"
    /\ transporter

\* C11: whether a sendNotification call attempts delivery or returns false
\* without a send is decided by the configuration in effect when the call is
\* made, also after a configuration reload: with sender, recipient and
\* password configured the first message is handed to the transport, and
\* otherwise the call ends with false at once.
C11_DecidedAtCall ==
  [][\A c \in Cycles :
       cyc[c].pc = "checked" /\ Moves(c) /\ notifCalls' # notifCalls =>
         IF hasValidEmailSettings(config)
           THEN cyc'[c].pc = "sms"
           ELSE cyc'[c].pc = "sent" /\ cyc'[c].sendResult = "false"]_vars

\* C12: _fetchHtml issues at most limit + 1 requests (limit being the
\* configured maximum of retries); it returns the body of the first 2xx
\* response, after which no request is issued; every failure, whatever its
\* kind, counts as one retry; and it throws only after limit + 1 requests
\* have failed in a row, the error thrown being the last of the failures.
C12_FetchTerminates ==
  /\ [](/\ fetching.requests <= fetching.limit + 1
        /\ fetching.retries = Len(fetching.errors)
        /\ fetching.pc = "returned" =>
             /\ fetching.body \in Bodies
             /\ fetching.requests = fetching.retries + 1
        /\ fetching.pc = "thrown" =>
             /\ fetching.requests = fetching.limit + 1
             /\ fetching.retries = fetching.limit + 1
             /\ fetching.thrown = fetching.errors[Len(fetching.errors)])
  /\ [][/\ fetching.pc \in {"returned", "thrown"} => fetching' = fetching
        /\ fetching.pc = "request" /\ fetching'.pc = "returned" =>
             fetching'.requests = fetching.requests
        /\ fetching'.retries # fetching.retries =>
             /\ fetching'.retries = fetching.retries + 1
             /\ fetching'.requests = fetching.requests
             /\ fetching'.pc \in {"backoff", "thrown"}
             /\ fetching'.pc = "thrown" <=>
                  fetching.retries = fetching.limit]_vars

\* a call that failed with two kinds of failure and threw the second
C12_Witness ==
  /\ fetching.pc = "thrown"
  /\ fetching.limit = maxRetries
  /\ fetching.errors[1] # fetching.thrown
  /\ fetching.requests = maxRetries + 1

\* C13: the backoff delay for attempt k with any jitter lies between
\* 2000 * 2^k and 2000 * 2^k + 1000 ms when that sum is below the cap of
\* 60000 ms and is at most 60000 ms otherwise; the delay for attempt k + 1
\* is never smaller than the delay for attempt k, whatever the two jitters;
\* and the Scraper and the Notifier compute the same delays.
C13_BackoffBounds ==
  delays.pc = "done" =>
    LET low == 2000 * 2^delays.attempt IN
      /\ low + 1000 < 60000 =>
           delays.scraper >= low /\ delays.scraper <= low + 1000
      /\ delays.scraper <= 60000
      /\ delays.scraper >= Min(low, 60000)
      /\ delays.scraperNext >= delays.scraper
      /\ delays.notifier = delays.scraper
      /\ delays.notifierNext = delays.scraperNext

\* attempt 4 with the largest jitter (32999 ms) followed by attempt 5 with
\* none, which the cap holds at 60000 ms
C13_Witness ==
  /\ delays.pc = "done"
  /\ delays.attempt = 4
  /\ delays.scraper = 32999
  /\ delays.jitterNext = 0
  /\ delays.scraperNext = 60000

\* strategy i of the fallback order (the three selector strategies, then
\* the generic scan as the fourth) locates the target's title in the page
\* of the extraction and reads an integer next to it
FindsAndParses(i) ==
  LET page == extraction.page IN
    IF i = 4
      THEN page.scan.card /\ page.scan.digits # NoMatch
      ELSE /\ page.sel[i].title = Label(extraction.type)
           /\ page.sel[i].element
           /\ page.sel[i].digits # NoMatch

\* the integer strategy i reads
CountOf(i) ==
  IF i = 4 THEN extraction.page.scan.digits
  ELSE extraction.page.sel[i].digits

\* C14: extract returns unknown (-1) whenever no strategy both finds the
\* title and reads an integer, be it that no title is found or that a title
\* is found without a count element or without digits in it.
C14_UnknownWhenUnparsed ==
  extraction.pc = "returned" /\ (\A i \in 1..4 : ~FindsAndParses(i))
    => extraction.value = Unknown

\* C15: extract returns the count read by the earliest strategy of the
\* fallback order that both finds the title and reads an integer; a
\* strategy that finds the title without reading a count does not end the
\* search.
C15_EarliestParsingStrategy ==
  extraction.pc = "returned" =>
    \A i \in 1..4 :
      FindsAndParses(i) /\ (\A j \in 1..(i - 1) : ~FindsAndParses(j))
        => extraction.value = CountOf(i)

C17_BothTargetsChecked ==
  [][\A c \in Cycles : Moves(c) =>
       /\ cyc[c].pc = "idle" =>
            cyc'[c].pc = "fetch" /\ cyc'[c].type = "regular"
       /\ cyc[c].pc # "idle" /\ cyc[c].type = "regular" =>
            /\ cyc'[c].pc # "idle"
            /\ cyc'[c].type = "mobile" =>
                 /\ cyc'[c].pc = "fetch"
                 /\ \/ cyc[c].pc = "sent"
                    \/ cyc[c].pc = "checked" /\ notifCalls' = notifCalls
       /\ cyc[c].type = "mobile" =>
            /\ cyc'[c].pc = "idle" \/ cyc'[c].type = "mobile"
            /\ cyc[c].pc = "checked" /\ cyc[c].count >= 0 =>
                 current'["mobile"].count = cyc[c].count]_vars

\* the mobile site has been read although every read of the regular site
\* failed so far
C17_Witness ==
  \E c \in Cycles :
    /\ cyc[c].type = "mobile"
    /\ cyc[c].pc = "checked"
    /\ cyc[c].count > 0
    /\ current["regular"] = Null

\* C18 (as stated): after a schedule call and before any start call the
\* scheduler is stopped, isRunning is false and no job has fired; start makes
\* a scheduler with jobs running and stop makes it stopped
C18_StoppedUntilStart ==
  [][/\ (scheduler'.crons # <<>> /\ ~scheduler'.startCalled)
        => /\ ~scheduler'.status.isRunning
           /\ scheduler'.status.checkCount = 0
     /\ (schedulerStart /\ size(scheduler.jobs) > 0)
        => scheduler'.status.isRunning
     /\ schedulerStop => ~scheduler'.status.isRunning]_vars

\* C18 (amended): a schedule call that succeeds leaves the scheduler running,
\* isRunning true and the new job live, with no start call; start makes a
\* scheduler with jobs running, every job of the Map live; stop makes it
\* stopped, isRunning false and no job live
C18_RunningOnceScheduled ==
  [][/\ \A r \in Requests :
          (validate(r.cronExpression)
             /\ schedule(r.name, r.cronExpression, r.task))
          => /\ scheduler'.status.isRunning
             /\ scheduler'.crons[scheduler'.jobs[r.name].job].live
     /\ (schedulerStart /\ size(scheduler.jobs) > 0)
        => /\ scheduler'.status.isRunning
           /\ \A i \in Registered(scheduler') : scheduler'.crons[i].live
     /\ schedulerStop
        => /\ ~scheduler'.status.isRunning
           /\ \A i \in DOMAIN scheduler'.crons :
                ~scheduler'.crons[i].live]_vars

\* a job has fired and the scheduler reports running with start never called
C18_Witness ==
  /\ ~scheduler.startCalled
  /\ scheduler.status.isRunning
  /\ scheduler.status.checkCount > 0

\* the jobs node-cron created for a name, and the last of them
Created(name) ==
  {i \in DOMAIN scheduler.crons : scheduler.crons[i].name = name}

Latest(name) ==
  CHOOSE i \in Created(name) : \A j \in Created(name) : j <= i

\* C19: after any sequence of schedule calls with one name, the Map holds one
\* job under the name, the job created last with the expression and task of
\* that call; the jobs created before it are stopped and never fire again, so
\* the tasks of the name are called at most once per minute
C19_OneJobPerName ==
  \A name \in Names :
    Created(name) # {} =>
      LET job == scheduler.jobs[name]
          latest == scheduler.crons[Latest(name)]
      IN /\ job # NoJob
         /\ job.job = Latest(name)
         /\ job.cronExpression = latest.cronExpression
         /\ job.task = latest.task
         /\ \A i \in Created(name) \ {Latest(name)} :
              /\ ~scheduler.crons[i].live
              /\ ~scheduler.crons[i].armed
         /\ scheduler.invoked[name] <= 1

\* a job that has run was replaced under its name, and the new job has fired
C19_Witness ==
  /\ Len(scheduler.crons) = 2
  /\ scheduler.crons[1].name = scheduler.crons[2].name
  /\ scheduler.crons[1].ended # "none"
  /\ scheduler.crons[1].cronExpression # scheduler.crons[2].cronExpression
  /\ scheduler.crons[2].inFlight > 0
  /\ scheduler.invoked[scheduler.crons[2].name] = 1

\* C20: when a job fires, lastCheckTime is set to the time of the firing and
\* checkCount grows by 1 as the task is called; when the task ends, returning
\* or throwing, nextCheckTime is computed anew from the job's expression, the
\* callback's promise is fulfilled, not rejected, and the job is as live as
\* it was, so it fires again at its next due minute
C20_FiringBookkeeping ==
  [][\A i \in DOMAIN scheduler.crons :
       LET before == scheduler.crons[i]
           after == scheduler'.crons[i]
       IN /\ after.inFlight > before.inFlight
             => /\ after.inFlight = before.inFlight + 1
                /\ scheduler'.status.lastCheckTime = scheduler'.clock
                /\ scheduler'.status.checkCount
                     = scheduler.status.checkCount + 1
          /\ after.inFlight < before.inFlight
             => /\ scheduler'.status.nextCheckTime
                     = calculateNextCheckTime(before.cronExpression,
                                              scheduler.clock)
                /\ scheduler'.status.checkCount = scheduler.status.checkCount
                /\ after.promise = "fulfilled"
                /\ after.live = before.live
                /\ after.armed = before.armed]_vars

\* the only job's task threw, and the job has fired again in a later minute
C20_Witness ==
  /\ Len(scheduler.crons) = 1
  /\ scheduler.crons[1].ended = "threw"
  /\ scheduler.crons[1].inFlight = 1
  /\ scheduler.status.checkCount = 2
  /\ scheduler.status.nextCheckTime <= scheduler.status.lastCheckTime

\* the schedule: the Map, the jobs with their timers, isRunning, nextCheckTime
Schedule(s) ==
  [jobs |-> s.jobs,
   crons |-> [i \in DOMAIN s.crons |->
                [live |-> s.crons[i].live, armed |-> s.crons[i].armed,
                 cronExpression |-> s.crons[i].cronExpression,
                 task |-> s.crons[i].task]],
   isRunning |-> s.status.isRunning,
   nextCheckTime |-> s.status.nextCheckTime]

\* C21: executeNow can be called in every state of the scheduler; under a name
\* with a job it calls the job's task once, and neither the call nor the end
\* of the task changes the Map, the jobs and their timers, isRunning or
\* nextCheckTime
C21_ExecuteNowKeepsSchedule ==
  [][\A name \in Names :
       /\ executeNow(name)
          => /\ Schedule(scheduler') = Schedule(scheduler)
             /\ scheduler'.direct - scheduler.direct
                  = IF scheduler.jobs[name] = NoJob THEN 0 ELSE 1
       /\ (\E outcome \in Outcomes : ExecuteEnds(outcome))
          => Schedule(scheduler') = Schedule(scheduler)]_vars

\* a task run by executeNow has returned and the job has fired after it, in
\* the next minute
C21_Witness ==
  /\ scheduler.executions = 1
  /\ scheduler.direct = 0
  /\ scheduler.returned
  /\ Len(scheduler.crons) = 1
  /\ scheduler.crons[1].inFlight = 1
  /\ scheduler.status.checkCount = 2
  /\ scheduler.status.lastCheckTime = scheduler.clock
  /\ scheduler.clock = 1

\* C22: check cycles are serialized: a cycle starts only when no other cycle
\* is in progress
C22_CyclesSerialized ==
  [][\A c \in Cycles :
       (cyc[c].pc = "idle" /\ cyc'[c].pc # "idle")
       => \A d \in Cycles \ {c} : cyc[d].pc = "idle"]_vars

\* C23: once App.stop has returned, the job starts no cycle until App.start
\* is called again; stop itself leaves the cycles in progress, the store and
\* the notifier as they are, and a cycle that goes on while the tracker is
\* stopped still stores the count it read and calls sendNotification when
\* the stored count was 0 and the count is positive
C23_StopKeepsCycles ==
  [][/\ \A c \in Cycles :
          (cyc[c].pc = "idle" /\ cyc'[c].pc # "idle")
          => IF c = "cron" THEN started /\ started'
                           ELSE ~started /\ started'
     /\ (started /\ ~started')
        => UNCHANGED <<cyc, storeVars, notifCalls, lastCall, transporter>>
     /\ \A c \in Cycles :
          (~started /\ cyc[c].pc = "checked" /\ Moves(c))
          => LET type == cyc[c].type
                 count == cyc[c].count
             IN /\ count >= 0
                   => /\ current'[type] # Null
                      /\ current'[type].count = count
                /\ (count > 0 /\ StoredCount(type) = 0)
                   => /\ notifCalls'[type] = notifCalls[type] + 1
                      /\ lastCall' = [type |-> type, count |-> count]
                      /\ cyc'[c].pc \in {"sms", "sent"}]_vars

\* the tracker is stopped while a cycle holds a positive count it has read
\* for a type whose stored count is 0
C23_Witness ==
  /\ ~started
  /\ \E c \in Cycles :
       /\ cyc[c].pc = "checked"
       /\ cyc[c].count > 0
       /\ current[cyc[c].type] # Null
       /\ StoredCount(cyc[c].type) = 0

\* how often an event is in the list of what the process did
Times(events, e) == Cardinality({i \in DOMAIN events : events[i] = e})

\* the process has exited
Exits == {"exit(0)", "exit(1)"}

\* C24 (as stated): for any number of shutdown calls the scheduler is stopped
\* and the state saved exactly once, and wherever the process exits, the
\* state was saved before the exit
C24_FlushBeforeEveryExit ==
  /\ Times(app.events, "shutdown") > 0
     => /\ Times(app.events, "stop") = 1
        /\ Times(app.events, "save") = 1
  /\ \A i \in DOMAIN app.events :
       app.events[i] \in Exits
       => \E j \in 1..(i - 1) : app.events[j] = "save"

\* C24 (amended): for any number of signals, shutdown stops the scheduler and
\* saves the state exactly once, and when the process exits from shutdown
\* the scheduler was stopped, then the state saved, then the process exited;
\* the exit of the uncaughtException handler comes without a save
C24_ShutdownOnceInOrder ==
  /\ Times(app.events, "shutdown") > 0
     => /\ Times(app.events, "shutdown") = 1
        /\ Times(app.events, "stop") = 1
        /\ Times(app.events, "save") = 1
        /\ app.exited
        /\ \A i \in DOMAIN scheduler.crons : ~scheduler.crons[i].live
  /\ \A i \in DOMAIN app.events :
       app.events[i] = "exit(0)"
       => /\ i >= 4
          /\ SubSeq(app.events, i - 3, i)
               = <<"shutdown", "stop", "save", "exit(0)">>
  /\ app.exited => app.events[Len(app.events)] \in Exits
  /\ Times(app.events, "exit(0)") + Times(app.events, "exit(1)") <= 1

\* a second signal was sent after shutdown had run on the first, with a job
\* scheduled and a count stored
C24_Witness ==
  /\ app.signals = 2
  /\ Times(app.events, "shutdown") = 1
  /\ Len(scheduler.crons) = 1
  /\ ~scheduler.crons[1].live
  /\ current["regular"] # Null
  /\ file.exists
  /\ file.current["regular"] = toJSON(current["regular"])

\* C25: runTest leaves the current state and the history of both types, the
\* file and the notifier as they are, whatever counts it reads, so that an
\* update called after it returns what it would have returned before it
C25_RunTestKeepsStore ==
  [][test' # test
     => /\ UNCHANGED <<current, history, file, now, notifCalls, lastCall,
                       wasZero, transporter>>
        /\ \A type \in Types, count \in Counts :
             updateResult(type, count)' = updateResult(type, count)]_vars

\* runTest has read a positive count for a type whose stored count is 0
C25_Witness ==
  /\ test.pc = "done"
  /\ test.results.mobileSite.count > 0
  /\ current["mobile"] # Null
  /\ StoredCount("mobile") = 0
  /\ history["mobile"] = <<>>

\* C26: a runTest that ends without email settings configured has made no
\* sendMail call and returns a report whose notification part is not
\* checked, with status 'Not tested (email not configured)', and whose site
\* parts are both checked, with the counts read
C26_NotTestedWithoutSettings ==
  [][(test.pc # "done" /\ test'.pc = "done"
        /\ ~hasValidEmailSettings(config))
     => /\ test'.mails = 0
        /\ test'.results.notification
             = [checked |-> "",
                status |-> "Not tested (email not configured)"]
        /\ test'.results.regularSite
             = [checked |-> TRUE, count |-> test.regularCount,
                status |-> siteStatus(test.regularCount)]
        /\ test'.results.mobileSite.checked
        /\ test'.results.mobileSite.count \in Counts \cup {Unknown}
        /\ test'.results.mobileSite.status
             = siteStatus(test'.results.mobileSite.count)]_vars

\* runTest has returned without email settings, one site check having failed
C26_Witness ==
  /\ ~hasValidEmailSettings(config)
  /\ test.pc = "done"
  /\ test.mails = 0
  /\ test.results.notification.status = "Not tested (email not configured)"
  /\ test.results.regularSite.status = "Failed"
  /\ test.results.mobileSite.status = "Success"

\* C27: a POST /api/config that is answered with a configuration error
\* leaves every value config.get returns as it was before the request
C27_ErrorKeepsConfig ==
  [][(\E body \in ConfigBodies : postApiConfig(body)) /\ web'.status = 400
     => web'.values = web.values]_vars

\* C28: an update whose write of the file fails still returns its result,
\* computed from the state in memory, and leaves the new record in the
\* current state and, when the count became available, at the head of the
\* history; every update compares with the count in memory, whatever the
\* file holds
C28_WriteFailureKeepsMemory ==
  [][Called =>
       LET type == input'.type
           count == input'.count
           newData == AppointmentData(type, count, now)
       IN /\ result' = updateResult(type, count)
          /\ result'.previousCount = StoredCount(type)
          /\ result'.becameAvailable
               = (count > 0 /\ StoredCount(type) = 0)
          /\ (hasChanged(current[type], count) /\ file' = file)
             => /\ current'[type] = newData
                /\ history'[type]
                     = IF result'.becameAvailable
                         THEN trim(<<newData>> \o history[type])
                         ELSE history[type]]_vars

\* no write has gone through, and the second update of an availability
\* window has found the count in memory positive
C28_Witness ==
  /\ ~file.exists
  /\ current["regular"] # Null
  /\ current["regular"].count = 2
  /\ Len(history["regular"]) = 1
  /\ result.type = "regular"
  /\ result.previousCount = 1
  /\ result.hasChanged
  /\ ~result.becameAvailable

\* C29: when reading or decoding the state file fails at any point of the
\* load at startup, the new store is empty: no current state and no history
\* for either type, nothing of the file kept
C29_FailedLoadStartsEmpty ==
  (fresh.built /\ fresh.failed)
    => /\ fresh.current = [t \in Types |-> Null]
       /\ fresh.history = [t \in Types |-> <<>>]

\* the state a new store has after loading the file a save of this state
\* writes
Reloaded == load(save(current, history, TRUE), TRUE)

\* C30: saving a state reached by update and clearHistory calls and loading
\* the file into a new store gives the same current state (type, count,
\* timestamp, location, or none) and the same history in the same order,
\* for both types
C30_RoundTrip ==
  /\ ~Reloaded.failed
  /\ Reloaded.current = current
  /\ Reloaded.history = history
  /\ (fresh.built /\ ~fresh.failed /\ file = save(current, history, TRUE))
       => fresh.current = current /\ fresh.history = history

C30_Witness ==
  /\ fresh.built /\ ~fresh.failed
  /\ file = save(current, history, TRUE)
  /\ current["regular"] # Null /\ current["mobile"] # Null
  /\ Len(history["regular"]) = 1 /\ Len(history["mobile"]) = 1
  /\ current["regular"].count = 0
  /\ fresh.current = current /\ fresh.history = history

\* C31: a save is one atomic write: when the process ends at any point of a
\* save, the state file holds the whole previous state or the whole new
\* state, never a part of one
C31_FileWholeAfterCrash == file.exists => file.whole

\* C32: after update(type, count) with a known count the current state of
\* the type is the record that call created, with the time of that call,
\* also when the count is the one already stored
C32_CurrentAlwaysOverwritten ==
  [][Called =>
       current'[input'.type] =
         AppointmentData(input'.type, input'.count, now)]_vars

\* C33: with TRACKER_REGULAR_URL or TRACKER_MOBILE_URL not set the
\* configuration loads without an error for that key and config.get returns
\* the documented default URL; a value that is set and is not a valid URL
\* makes the loading fail
C33_UrlDefaults ==
  startup.done =>
    \A k \in UrlKeys :
      /\ startup.env[k] = Empty
           => k \notin startup.errors /\ startup.values[k] = Default(k)
      /\ (startup.env[k] # Empty /\ ~valid(k, startup.env[k]))
           => startup.failed

C35_LevelFollowsConfig ==
  logging.initialized =>
    /\ logging.minLevel = LOG_LEVELS[named(logging.level)]
    /\ \A name \in logging.emitted :
         LOG_LEVELS[name] >= LOG_LEVELS[named(logging.level)]

\* a cycle is inside the sendNotification call it made for the type
Notifying(c, t) ==
  cyc[c].type = t /\ cyc[c].pc \in {"sms", "email", "sent"}

\* a cycle holds a positive count of the type and has not passed it to
\* update yet
Observed(c, t) ==
  cyc[c].type = t /\ cyc[c].pc = "checked" /\ cyc[c].count > 0

\* C36: when two overlapping cycles both hold a positive count for a type
\* whose stored count is 0, the update of the first one to resume reports
\* becameAvailable, adds the one history entry and leads to the one
\* sendNotification call; the update of the other one, made while the
\* record of the first is still the current one, finds the stored count
\* positive and does none of these
C36_OneTransitionForTwoCycles ==
  [][\A c \in Cycles, t \in Types :
       \A d \in Cycles \ {c} :
         /\ (Observed(c, t) /\ Observed(d, t) /\ StoredCount(t) = 0
                /\ Moves(c))
              => /\ becameAvailable(current[t], cyc[c].count)
                 /\ notifCalls'[t] = notifCalls[t] + 1
                 /\ history'[t] = trim(<<current'[t]>> \o history[t])
                 /\ current'[t].count = cyc[c].count
                 /\ Notifying(c, t)'
                 /\ cyc'[d] = cyc[d]
         /\ (Observed(d, t) /\ Notifying(c, t) /\ history[t] # <<>>
                /\ current[t] = history[t][1] /\ Moves(d))
              => /\ ~becameAvailable(current[t], cyc[d].count)
                 /\ notifCalls' = notifCalls
                 /\ history' = history
                 /\ ~Notifying(d, t)']_vars

\* the second cycle has updated the type with another positive count while
\* the first one is still inside its sendNotification call
C36_Witness ==
  /\ Notifying("initial", "regular")
  /\ cyc["cron"].type = "mobile" /\ cyc["cron"].pc = "fetch"
  /\ notifCalls["regular"] = 1
  /\ Len(history["regular"]) = 1
  /\ history["regular"][1].count = 1
  /\ current["regular"].count = 2

\* C37: across a restart with a state file that holds the state of the
\* store, the store of the new process has the current records and the
\* history of the old one, and the first update after it with a positive
\* count for a type whose count was positive reports becameAvailable =
\* false, adds no history entry and leads to no notification
C37_NoSecondNotificationAfterRestart ==
  [][/\ (fresh'.built /\ ~fresh.built /\ ~fresh'.failed
          /\ file = save(current, history, TRUE))
        => current' = current /\ history' = history
     /\ \A t \in Types :
          (/\ fresh.built /\ current = fresh.current
           /\ file.exists /\ file.current[t] # Null
           /\ file.current[t].count > 0
           /\ ~fresh.failed
           /\ Called /\ input'.type = t /\ input'.count > 0)
          => /\ ~result'.becameAvailable
             /\ ~shouldNotify(result')
             /\ history' = history]_vars

\* the store was restarted with the count 1 for the regular site and has
\* been updated with the count 2 since
C37_Witness ==
  /\ fresh.built /\ ~fresh.failed
  /\ fresh.current["regular"] # Null /\ fresh.current["regular"].count = 1
  /\ current["regular"].count = 2
  /\ result.type = "regular" /\ result.count = 2
  /\ result.previousCount = 1
  /\ ~result.becameAvailable
  /\ history = fresh.history
  /\ Len(history["regular"]) = 1

\* C38: within one sendNotification call each recipient address is sent at
\* most one message, whatever sends fail across the retry loop
C38_OneMessagePerRecipient ==
  \A c \in Cycles, a \in Addresses : cyc[c].sentTo[a] <= 1

\* C39: the report of runTest depends on the email password only through
\* whether it is set: under any other non-empty password the report would
\* be the same, and the password is not in the report
C39_ReportHidesPassword ==
  (test.pc = "done" /\ config.password # "")
    => /\ \A p \in {"secret", "hunter2"} :
            results([config EXCEPT !.password = p],
                    test.results.regularSite.count,
                    test.results.mobileSite.count,
                    test.results.notification.status) = test.results
       /\ test.results.notification.checked # config.password

\* C40: a schedule call with an expression that fails validation returns
\* false and changes nothing: the Map, the job registered under the name
\* before, isRunning, nextCheckTime and the jobs of node-cron are as before
\* the call, so the job registered before is as live as it was and fires
\* at its next due minute
C40_RejectedScheduleChangesNothing ==
  [][(scheduler.returned /\ ~scheduler'.returned)
       => /\ scheduler'.jobs = scheduler.jobs
          /\ scheduler'.crons = scheduler.crons
          /\ scheduler'.status = scheduler.status
          /\ scheduler' = [scheduler EXCEPT !.returned = FALSE]]_vars

\* a schedule call was rejected after a job was registered under the name,
\* and the timer of that job has gone off since it was started
C40_Witness ==
  /\ ~scheduler.returned
  /\ scheduler.jobs["appointmentCheck"] # NoJob
  /\ scheduler.status.isRunning
  /\ LET job == scheduler.crons[scheduler.jobs["appointmentCheck"].job]
     IN job.live /\ job.armed

====
